---- MODULE Spec2Model ----
(***************************************************************************)
(* Verification model of the repository's orchestration code:              *)
(*   - the OpenSpec engine (src/openspec/*.go, the bead decomposer),       *)
(*   - the Manifest orchestration flow (PLANNING_PLUGIN_DESIGN.md),        *)
(*   - the Hyprland notifier plugins (hypr-notifier.ts and its sibling).   *)
(* Each program has its own specification; the variables of the programs   *)
(* that a specification does not run stay at their idle values.            *)
(***************************************************************************)
EXTENDS Integers, Sequences, FiniteSets, TLC

\* ------------------------------------------------------------------------
\* Bounds of the model
\* ------------------------------------------------------------------------
\* number of beads a decomposed spec holds in the engine runs
MaxBeads == 2

\* ------------------------------------------------------------------------
\* Program constants
\* ------------------------------------------------------------------------
\* NewBeadExecutor: parallel implementations per bead
Parallel == 5

\* BeadStatus values (spec.go)
BeadSpecified == "specified"
BeadInProgress == "in_progress"
BeadVerifying == "verifying"
BeadVerified == "verified"
BeadFailed == "failed"

VARIABLES
    epc,        \* engine: position in Engine.Run (Spec, then Execute)
    store,      \* engine: the Store's tables
    specResult, \* engine: the beads Engine.Spec holds in memory
    beads,      \* engine: the beads Engine.Execute loaded from the Store
    bi,         \* engine: loop index (SaveBead loop, ExecuteAll loop)
    completed,  \* engine: ExecuteAll's completed map (its key set)
    results,    \* engine: ExecuteAll's results
    attempts,   \* engine: the attempt goroutines of the current bead
    chan,       \* engine: the buffered results channel of executeBead
    wg,         \* engine: the WaitGroup counter
    closed,     \* engine: whether the results channel is closed
    result,     \* engine: the BeadResult executeBead is building
    execResult, \* engine: what Engine.Execute returned
    effects,    \* history: side effects with the status stored when they began
    mpc,        \* manifest: position in manifest() ("idle" between calls)
    intents,    \* manifest: the status column of the intents table
    mcur,       \* manifest: intentId of the running manifest() call
    mpassed,    \* manifest: whether any verification result passed
    mdb,        \* manifest: the other tables (by intent)
    applied,    \* manifest: the intents of the applyChanges calls, in order
    mres,       \* manifest: status of the last ManifestResult
    vin,        \* verifier: the arguments of the call under test
    vdone,      \* verifier: which of the verifiers has returned
    vout,       \* verifier: the Verification CUEVerifier.Verify returned
    vts,        \* verifier: the VerificationResult verifyOne returned
    vsurv,      \* verifier: what survived returned
    dpc,        \* decomposer: position in Decompose
    dbeads,     \* decomposer: allBeads
    di,         \* decomposer: index of ensureSmallBeads' loop
    dsmall,     \* decomposer: ensureSmallBeads' result
    dnext,      \* decomposer: the next fresh bead id
    inDegree,   \* decomposer: topologicalSort's inDegree
    adj,        \* decomposer: topologicalSort's adj
    queue,      \* decomposer: topologicalSort's queue
    dresult,    \* decomposer: topologicalSort's result
    plugin,     \* notifier: which of the two plugin modules is loaded
    cfgFile,    \* notifier: the state of opencode-hyprland.json
    cachedConfig,         \* notifier: module state
    configLoadAttempted,  \* notifier: module state (HyprlandNotifierPlugin)
    initialized,          \* notifier: module state (HyprNotifierPlugin)
    idleNotificationSent, \* notifier: module state (HyprNotifierPlugin)
    instances,  \* notifier: the config each plugin instance captured
    calls,      \* notifier: the calls of the event hook
    spawned,    \* notifier: notify-send commands handed to the executor
    logs,       \* notifier: entries the ErrorLogger holds
    initLogs,   \* notifier: initialization messages logged
    loads,      \* notifier: times loadConfig went to the file system
    tick,       \* notifier: the calls and the idle flag when the event loop
                \* last turned
    spc,        \* store: position of the round-trip run
    sdb,        \* store: the rows of the four tables
    ssaved,     \* store: the entities whose Save returned nil
    sloaded,    \* store: what the last Get returned
    wpc,        \* workspace: position in verifyOne
    wvariant,   \* workspace: which verifyOne runs
    workspace,  \* workspace: the attempt's directory on disk
    wchecks,    \* workspace: the stage results so far
    wout,       \* workspace: how the verifyOne promise settled
    hvariant,   \* pool: which verifyAll runs
    hstate,     \* pool: queued, running or done, per attempt
    hpermits,   \* pool: the permits the semaphore has left
    kpc,        \* rank: position of the ranking call
    kvariant,   \* rank: which ranking runs
    kin,        \* rank: the verification results handed over
    kout,       \* rank: the survivors returned
    xpc,        \* shell: position in executeCommand
    xvariant,   \* shell: which executeCommand runs
    xcall,      \* shell: the options passed and what the command will do
    xproc,      \* shell: the state of the spawned process
    xresult,    \* shell: the exitCode returned
    gpc,        \* config: position of the loadConfig call
    gvariant,   \* config: which loadConfig runs
    gfile,      \* config: the state of the configuration file
    gconfig,    \* config: the configuration loadConfig returned
    lpc,        \* logger: "on" while the ErrorLogger is under test
    lclock,     \* logger: Date.now()
    lcalls,     \* logger: the log calls made so far
    lentries,   \* logger: this.logs
    lsnapshot,  \* logger: the array a getLogs call returned
    lattempt    \* logger: the last write tried on that array, and its end

engineVars == <<epc, store, specResult, beads, bi, completed, results,
                attempts, chan, wg, closed, result, execResult>>

manifestVars == <<mpc, intents, mcur, mpassed, mdb, applied, mres>>

verifyVars == <<vin, vdone, vout, vts, vsurv>>

decomposeVars == <<dpc, dbeads, di, dsmall, dnext, inDegree, adj, queue,
                   dresult>>

notifierVars == <<plugin, cfgFile, cachedConfig, configLoadAttempted,
                  initialized, idleNotificationSent, instances, calls,
                  spawned, logs, initLogs, loads, tick>>

roundTripVars == <<spc, sdb, ssaved, sloaded>>

workspaceVars == <<wpc, wvariant, workspace, wchecks, wout>>

poolVars == <<hvariant, hstate, hpermits>>

rankVars == <<kpc, kvariant, kin, kout>>

shellVars == <<xpc, xvariant, xcall, xproc, xresult>>

configVars == <<gpc, gvariant, gfile, gconfig>>

loggerVars == <<lpc, lclock, lcalls, lentries, lsnapshot, lattempt>>

toolVars == <<shellVars, configVars, loggerVars>>

\* what the engine's steps leave alone
notEngine == <<manifestVars, verifyVars, decomposeVars, notifierVars,
               roundTripVars, workspaceVars, poolVars, rankVars, toolVars>>

\* what the manifest flow's steps leave alone
notManifest == <<engineVars, verifyVars, decomposeVars, notifierVars,
                 roundTripVars, workspaceVars, poolVars, rankVars, toolVars>>

\* what the verifiers' steps leave alone
notVerify == <<engineVars, manifestVars, effects, decomposeVars, notifierVars,
               roundTripVars, workspaceVars, poolVars, rankVars, toolVars>>

\* what the decomposer's steps leave alone
notDecompose == <<engineVars, manifestVars, effects, verifyVars, notifierVars,
                  roundTripVars, workspaceVars, poolVars, rankVars, toolVars>>

\* what the notifier's steps leave alone
notNotifier == <<engineVars, manifestVars, effects, verifyVars, decomposeVars,
                 roundTripVars, workspaceVars, poolVars, rankVars, toolVars>>

\* what the store round trip's steps leave alone
notRoundTrip == <<engineVars, manifestVars, effects, verifyVars, decomposeVars,
                  notifierVars, workspaceVars, poolVars, rankVars, toolVars>>

\* what verifyOne's steps leave alone
notWorkspace == <<engineVars, manifestVars, effects, verifyVars, decomposeVars,
                  notifierVars, roundTripVars, poolVars, rankVars, toolVars>>

\* what verifyAll's steps leave alone
notPool == <<engineVars, manifestVars, effects, verifyVars, decomposeVars,
             notifierVars, roundTripVars, workspaceVars, rankVars, toolVars>>

\* what the ranking's steps leave alone
notRank == <<engineVars, manifestVars, effects, verifyVars, decomposeVars,
             notifierVars, roundTripVars, workspaceVars, poolVars, toolVars>>

\* what executeCommand's steps leave alone
notShell == <<engineVars, manifestVars, effects, verifyVars, decomposeVars,
              notifierVars, roundTripVars, workspaceVars, poolVars, rankVars,
              configVars, loggerVars>>

\* what loadConfig's steps leave alone
notConfig == <<engineVars, manifestVars, effects, verifyVars, decomposeVars,
               notifierVars, roundTripVars, workspaceVars, poolVars, rankVars,
               shellVars, loggerVars>>

\* what the ErrorLogger's steps leave alone
notLogger == <<engineVars, manifestVars, effects, verifyVars, decomposeVars,
               notifierVars, roundTripVars, workspaceVars, poolVars, rankVars,
               shellVars, configVars>>

vars == <<engineVars, effects, manifestVars, verifyVars, decomposeVars,
          notifierVars, roundTripVars, workspaceVars, poolVars, rankVars, toolVars>>

\* ---- idle values of the store round trip, the harness and the ranking ----
EmptyTables == [intents |-> {}, specs |-> {}, beads |-> {}, verifications |-> {}]

NothingLoaded == [kind |-> "none", found |-> FALSE, value |-> [kind |-> "none"]]

RoundTripFresh == sdb = EmptyTables /\ ssaved = {} /\ sloaded = NothingLoaded

RoundTripIdle == spc = "off" /\ RoundTripFresh

\* verifyOne before its first step
WorkspaceFresh ==
    /\ workspace = "none"
    /\ wchecks = [c \in {"typecheck", "lint", "unitTests", "specTests"} |-> "pending"]
    /\ wout = "none"

WorkspaceIdle == wpc = "off" /\ wvariant = "off" /\ WorkspaceFresh

PoolIdle == hvariant = "off" /\ hstate = <<>> /\ hpermits = 0

RankFresh == kout = <<>>

RankIdle == kpc = "off" /\ kvariant = "off" /\ kin = <<>> /\ RankFresh

\* a JavaScript null or a number: the empty or the one-element sequence
Null == <<>>

NoCall == [stdout |-> "pipe", stderr |-> "pipe", spawn |-> "starts", code |-> 0]

ShellFresh == xproc = "none" /\ xresult = [exitCode |-> Null]

ShellIdle == xpc = "off" /\ xvariant = "off" /\ xcall = NoCall /\ ShellFresh

ConfigIdle ==
    gpc = "off" /\ gvariant = "off" /\ gfile = "off" /\ gconfig = "none"

\* no getLogs call yet, no write tried
NoSnapshot == [taken |-> FALSE, frozen |-> TRUE, own |-> TRUE, items |-> <<>>]

NoAttempt == [op |-> "none", threw |-> FALSE]

LoggerFresh ==
    /\ lclock = 0
    /\ lcalls = 0
    /\ lentries = <<>>
    /\ lsnapshot = NoSnapshot
    /\ lattempt = NoAttempt

LoggerIdle == lpc = "off" /\ LoggerFresh

ToolsIdle == ShellIdle /\ ConfigIdle /\ LoggerIdle

\* the programs a specification of the engine, the flow, the verifiers, the
\* decomposer or the notifier does not run
HarnessIdle ==
    RoundTripIdle /\ WorkspaceIdle /\ PoolIdle /\ RankIdle /\ ToolsIdle

\* cachedConfig = null
NoConfig == [loaded |-> FALSE, notification |-> FALSE]

\* the plugin module as loaded into a new process
NotifierFresh ==
    /\ cachedConfig = NoConfig
    /\ configLoadAttempted = FALSE
    /\ initialized = FALSE
    /\ idleNotificationSent = FALSE
    /\ instances = <<>>
    /\ calls = <<>>
    /\ spawned = 0
    /\ logs = 0
    /\ initLogs = 0
    /\ loads = 0
    /\ tick = [start |-> 0, idle |-> FALSE]

NotifierIdle == plugin = "off" /\ cfgFile = "missing" /\ NotifierFresh

\* the decomposer before Decompose is called
DecomposeFresh ==
    /\ dbeads = <<>>
    /\ di = 0
    /\ dsmall = <<>>
    /\ dnext = 1
    /\ inDegree = <<>>
    /\ adj = <<>>
    /\ queue = <<>>
    /\ dresult = <<>>

DecomposeIdle == dpc = "off" /\ DecomposeFresh

\* the manifest flow's tables before the first call
EmptyDb ==
    [specs |-> {}, attempts |-> {}, verifications |-> {}, survivors |-> {},
     judgments |-> {}]

\* the flow's state before the first call
ManifestFresh ==
    /\ intents = <<>>
    /\ mcur = 0
    /\ mpassed = FALSE
    /\ mdb = EmptyDb
    /\ applied = <<>>
    /\ mres = "none"

ManifestIdle == mpc = "off" /\ ManifestFresh

\* ========================================================================
\* CUE verifier (src/openspec/verifier.go)
\* ========================================================================
\* A contract is [Invariants: sequence of severities, Thresholds: count,
\* Examples: count]; an implementation is described by how it fares in each
\* check: [json, schema, inv[i], thr[i], prop].

\* bound on the invariants and on the thresholds of a contract
MaxChecks == 2

Severities == {"error", "warning"}

\* validateSchema: a failed check always carries one error text
ValidateSchema(impl) ==
    [Passed |-> impl.schema, Errors |-> IF impl.schema THEN 0 ELSE 1]

\* checkInvariant: one InvariantCheck per invariant of the contract
CheckInvariant(i, impl) == [InvariantID |-> i, Passed |-> impl.inv[i]]

\* checkThreshold
CheckThreshold(i, impl) == [ThresholdID |-> i, Passed |-> impl.thr[i]]

\* runPropertyTests: Passed = (Failures == 0)
RunPropertyTests(impl) == [Passed |-> impl.prop]

InvariantFailsAnySeverity(check, severity) == ~check.Passed

\* Verify line 71: a failed invariant check clears Passed only for severity "error"
InvariantFails(check, severity) == ~check.Passed /\ severity = "error"

Verify(bead, impl) ==
    IF ~impl.json
    THEN [BeadID |-> bead.ID, Passed |-> FALSE,
          ContractChecks |-> <<[Passed |-> FALSE, Errors |-> 1]>>,
          InvariantChecks |-> <<>>, ThresholdChecks |-> <<>>,
          PropertyChecks |-> <<>>]
    ELSE LET c == bead.Contract
             cc == ValidateSchema(impl)
             ics == [i \in 1..Len(c.Invariants) |-> CheckInvariant(i, impl)]
             tcs == [i \in 1..c.Thresholds |-> CheckThreshold(i, impl)]
             pcs == IF c.Examples > 0 THEN <<RunPropertyTests(impl)>> ELSE <<>>
         IN [BeadID |-> bead.ID,
             Passed |-> /\ cc.Passed
                        /\ \A i \in 1..Len(ics) :
                               ~InvariantFails(ics[i], c.Invariants[i])
                        /\ \A i \in 1..Len(tcs) : tcs[i].Passed
                        /\ \A i \in 1..Len(pcs) : pcs[i].Passed,
             ContractChecks |-> <<cc>>,
             InvariantChecks |-> ics,
             ThresholdChecks |-> tcs,
             PropertyChecks |-> pcs]

\* ========================================================================
\* OpenSpec engine (src/openspec/openspec.go, executor.go, store.go)
\* ========================================================================
BeadIds == 1..MaxBeads

\* the contract every engine bead carries
EngineContract ==
    [Invariants |-> <<"error", "warning">>, Thresholds |-> 1, Examples |-> 1]

AllTrue == [i \in 1..MaxChecks |-> TRUE]

\* The implementations the AI returns to the engine, by name, and how each
\* fares in the checks. generateImplementation returns re-marshalled, hence
\* valid, JSON. "nil" is the empty []byte of a BeadResult without one.
EngineImpls == {"good", "bad"}

ImplOf(name) ==
    [json |-> TRUE, schema |-> (name = "good"), inv |-> AllTrue,
     thr |-> AllTrue, prop |-> TRUE]

\* Go's zero Verification{}: BeadID "" is 0 here
ZeroVerification ==
    [BeadID |-> 0, Passed |-> FALSE, ContractChecks |-> <<>>,
     InvariantChecks |-> <<>>, ThresholdChecks |-> <<>>,
     PropertyChecks |-> <<>>]

MkBead(id, req) ==
    [ID |-> id, Requires |-> req, Contract |-> EngineContract,
     Status |-> BeadSpecified]

\* The bead lists Decompose hands to Engine.Spec: ids in list order, every
\* bead after the beads it requires (topologicalSort).
RECURSIVE BeadListsOf(_)
BeadListsOf(n) ==
    IF n = 0 THEN {<<>>}
    ELSE {Append(l, MkBead(n, req)) :
              l \in BeadListsOf(n - 1), req \in SUBSET (1..(n - 1))}

EngineBeadLists == UNION {BeadListsOf(n) : n \in 1..MaxBeads}

\* the Store's tables: beads maps the ids of the saved rows to the rows
EmptyStore ==
    [intent |-> FALSE, specSaved |-> FALSE, order |-> <<>>,
     beads |-> <<>>, verifications |-> {}]

\* BeadResult{Bead: bead, SuccessfulIdx: -1} (Bead is kept by its id)
EmptyResult ==
    [Bead |-> 0, Implementation |-> "nil", Verification |-> ZeroVerification,
     Attempts |-> 0, SuccessfulIdx |-> -1]

NoExecResult == [returned |-> FALSE, Results |-> <<>>, AllPassed |-> FALSE,
                 Failures |-> <<>>]

\* a new Engine over an empty database
EngineFresh ==
    /\ store = EmptyStore
    /\ specResult = <<>>
    /\ beads = <<>>
    /\ bi = 0
    /\ completed = {}
    /\ results = <<>>
    /\ attempts = [i \in 1..Parallel |-> "idle"]
    /\ chan = <<>>
    /\ wg = 0
    /\ closed = FALSE
    /\ result = EmptyResult
    /\ execResult = NoExecResult

EngineIdle == epc = "off" /\ EngineFresh

\* ---- the verifiers' inputs ----
\* the checks of the TypeScript and Gleam harnesses
Stages == {"typecheck", "lint", "unitTests", "specTests"}

NoStages == [c \in Stages |-> FALSE]

\* every contract with at most MaxChecks invariants and thresholds
SeverityLists == UNION {[1..n -> Severities] : n \in 0..MaxChecks}

VerifyContracts ==
    [Invariants : SeverityLists, Thresholds : 0..MaxChecks, Examples : 0..1]

\* how an implementation fares in each check
VerifyImpls ==
    [json : BOOLEAN, schema : BOOLEAN, inv : [1..MaxChecks -> BOOLEAN],
     thr : [1..MaxChecks -> BOOLEAN], prop : BOOLEAN]

NoVerifyInput ==
    [kind |-> "off", contract |-> EngineContract, impl |-> ImplOf("good"),
     stages |-> NoStages]

NoStageResult == [passed |-> FALSE, checks |-> NoStages]

VerifyFresh ==
    /\ vdone = {}
    /\ vout = ZeroVerification
    /\ vts = NoStageResult
    /\ vsurv = FALSE

VerifyIdle == vin = NoVerifyInput /\ VerifyFresh

InitEngine ==
    /\ epc = "spec_start"
    /\ EngineFresh
    /\ effects = {}
    /\ HarnessIdle
    /\ ManifestIdle
    /\ VerifyIdle
    /\ DecomposeIdle
    /\ NotifierIdle

UpdateBeadStatusDropped(st, id, status) == st

\* SQLiteStore.UpdateBeadStatus: UPDATE beads SET status = ? WHERE id = ?
UpdateBeadStatus(st, id, status) ==
    IF id \notin DOMAIN st.beads THEN st
    ELSE [st EXCEPT !.beads[id].Status = status]

\* SQLiteStore.SaveBead: INSERT INTO beads (rows are saved in list order,
\* and a bead's id is its place in the list)
SaveBead(st, bead) == [st EXCEPT !.beads = Append(st.beads, bead)]

\* SQLiteStore.SaveSpec (the bead order is what Execute reads back)
SaveSpec(st, bl) ==
    [st EXCEPT !.specSaved = TRUE, !.order = [i \in 1..Len(bl) |-> bl[i].ID]]

\* SQLiteStore.SaveIntent
SaveIntent(st) == [st EXCEPT !.intent = TRUE]

\* ---- Engine.Spec ----
SpecSaveIntent ==
    /\ epc = "spec_start"
    /\ \E ok \in BOOLEAN :
          IF ok THEN store' = SaveIntent(store) /\ epc' = "spec_compile"
          ELSE store' = store /\ epc' = "error"
    /\ UNCHANGED <<specResult, beads, bi, completed, results, attempts, chan,
                   wg, closed, result, execResult, effects>>
    /\ UNCHANGED notEngine

\* compiler.Compile and decomposer.Decompose: AI calls that may fail
SpecCompile ==
    /\ epc = "spec_compile"
    /\ \E ok \in BOOLEAN : epc' = IF ok THEN "spec_decompose" ELSE "error"
    /\ UNCHANGED <<store, specResult, beads, bi, completed, results, attempts,
                   chan, wg, closed, result, execResult, effects>>
    /\ UNCHANGED notEngine

SpecDecompose ==
    /\ epc = "spec_decompose"
    /\ \/ \E bl \in EngineBeadLists :
              specResult' = bl /\ epc' = "spec_save"
       \/ specResult' = specResult /\ epc' = "error"
    /\ UNCHANGED <<store, beads, bi, completed, results, attempts, chan, wg,
                   closed, result, execResult, effects>>
    /\ UNCHANGED notEngine

SpecSaveSpec ==
    /\ epc = "spec_save"
    /\ \E ok \in BOOLEAN :
          IF ok
          THEN store' = SaveSpec(store, specResult) /\ epc' = "spec_save_beads"
               /\ bi' = 1
          ELSE store' = store /\ epc' = "error" /\ bi' = bi
    /\ UNCHANGED <<specResult, beads, completed, results, attempts, chan, wg,
                   closed, result, execResult, effects>>
    /\ UNCHANGED notEngine

SpecSaveBead ==
    /\ epc = "spec_save_beads"
    /\ bi <= Len(specResult)
    /\ \E ok \in BOOLEAN :
          IF ok
          THEN store' = SaveBead(store, specResult[bi]) /\ bi' = bi + 1
               /\ epc' = epc
          ELSE store' = store /\ epc' = "error" /\ bi' = bi
    /\ UNCHANGED <<specResult, beads, completed, results, attempts, chan, wg,
                   closed, result, execResult, effects>>
    /\ UNCHANGED notEngine

SpecReturn ==
    /\ epc = "spec_save_beads"
    /\ bi > Len(specResult)
    /\ epc' = "spec_done"
    /\ UNCHANGED <<store, specResult, beads, bi, completed, results, attempts,
                   chan, wg, closed, result, execResult, effects>>
    /\ UNCHANGED notEngine

\* ---- Engine.Execute ----
\* GetSpec, then GetBead for every id of spec.Order
ExecuteLoad ==
    /\ epc = "spec_done"
    /\ \E ok \in BOOLEAN :
          IF /\ ok
             /\ store.specSaved
             /\ \A i \in 1..Len(store.order) : store.order[i] \in DOMAIN store.beads
          THEN /\ beads' = [i \in 1..Len(store.order) |-> store.beads[store.order[i]]]
               /\ epc' = "exec_loop"
          ELSE beads' = beads /\ epc' = "error"
    /\ bi' = 1
    /\ completed' = {}
    /\ results' = <<>>
    /\ UNCHANGED <<store, specResult, attempts, chan, wg, closed, result,
                   execResult, effects>>
    /\ UNCHANGED notEngine

\* ExecuteAll, top of the loop body: dependency check, status in_progress
BeadStart ==
    /\ epc = "exec_loop"
    /\ bi <= Len(beads)
    /\ IF \E dep \in beads[bi].Requires : dep \notin completed
       THEN store' = store /\ epc' = "error_dependency"
       ELSE \E ok \in BOOLEAN :
               IF ok
               THEN /\ store' = UpdateBeadStatus(store, beads[bi].ID, BeadInProgress)
                    /\ epc' = "exec_bead"
               ELSE store' = store /\ epc' = "error"
    /\ UNCHANGED <<specResult, beads, bi, completed, results, attempts, chan,
                   wg, closed, result, execResult, effects>>
    /\ UNCHANGED notEngine

\* executeBead up to the launch of the attempt goroutines
ExecuteBeadStart ==
    /\ epc = "exec_bead"
    /\ result' = [EmptyResult EXCEPT !.Bead = beads[bi].ID]
    /\ \E ok \in BOOLEAN :
          IF ok
          THEN /\ store' = UpdateBeadStatus(store, beads[bi].ID, BeadVerifying)
               /\ attempts' = [i \in 1..Parallel |-> "run"]
               /\ wg' = Parallel
               /\ chan' = <<>>
               /\ closed' = FALSE
               /\ epc' = "collect"
          ELSE /\ epc' = "error"
               /\ UNCHANGED <<store, attempts, wg, chan, closed>>
    /\ UNCHANGED <<specResult, beads, bi, completed, results, execResult,
                   effects>>
    /\ UNCHANGED notEngine

\* the status the Store holds for the bead being executed
StoredStatus == store.beads[beads[bi].ID].Status

\* generateImplementation: the AI call fails, or the response is not JSON
\* ("err"), or an implementation comes back
GenerateOutcomes == {"err"} \cup EngineImpls

\* what the attempt goroutine sends on results (executeBead lines 111-131);
\* Verify never returns an error
AttemptResult(i, bead, out) ==
    IF out = "err"
    THEN [idx |-> i, implementation |-> "nil",
          verification |-> ZeroVerification, err |-> TRUE]
    ELSE [idx |-> i, implementation |-> out,
          verification |-> Verify(bead, ImplOf(out)), err |-> FALSE]

\* One attempt goroutine, from its AI call to its send on results; the
\* goroutine's place in attempts becomes the outcome it ended with. The
\* goroutine shares nothing but the channel and the WaitGroup, and the
\* channel's buffer holds all Parallel sends, so the send never blocks.
Attempt(i) ==
    /\ epc = "collect"
    /\ attempts[i] = "run"
    /\ Len(chan) < Parallel
    /\ effects' = effects \cup
          {[kind |-> "attempt", phase |-> BeadVerifying, stored |-> StoredStatus]}
    /\ \E out \in GenerateOutcomes :
          /\ chan' = Append(chan, AttemptResult(i, beads[bi], out))
          /\ attempts' = [attempts EXCEPT ![i] = out]
    /\ wg' = wg - 1
    /\ UNCHANGED <<epc, store, specResult, beads, bi, completed, results,
                   closed, result, execResult>>
    /\ UNCHANGED notEngine

WaitSkipped(w) == TRUE

\* wg.Wait() returns once every attempt goroutine has called wg.Done()
WaitDone(w) == w = 0

\* go func() { wg.Wait(); close(results) }
CloseResults ==
    /\ epc = "collect"
    /\ WaitDone(wg)
    /\ ~closed
    /\ closed' = TRUE
    /\ UNCHANGED <<epc, store, specResult, beads, bi, completed, results,
                   attempts, chan, wg, result, execResult, effects>>
    /\ UNCHANGED notEngine

PickLast(r, res) ==
    IF res.err THEN [r EXCEPT !.Attempts = r.Attempts + 1]
    ELSE IF res.verification.Passed
         THEN [r EXCEPT !.Attempts = r.Attempts + 1,
                        !.Implementation = res.implementation,
                        !.Verification = res.verification,
                        !.SuccessfulIdx = res.idx]
         ELSE [r EXCEPT !.Attempts = r.Attempts + 1]

PickLostOnError(r, res) ==
    IF res.err
    THEN [r EXCEPT !.Attempts = r.Attempts + 1, !.Implementation = "nil",
                   !.Verification = ZeroVerification, !.SuccessfulIdx = -1]
    ELSE PickLast(r, res)

\* executeBead lines 142-153: count the attempt, keep the first passing one
PickFirst(r, res) ==
    IF res.err THEN [r EXCEPT !.Attempts = r.Attempts + 1]
    ELSE IF res.verification.Passed /\ r.SuccessfulIdx < 0
         THEN [r EXCEPT !.Attempts = r.Attempts + 1,
                        !.Implementation = res.implementation,
                        !.Verification = res.verification,
                        !.SuccessfulIdx = res.idx]
         ELSE [r EXCEPT !.Attempts = r.Attempts + 1]

\* for res := range results: one receive
Collect ==
    /\ epc = "collect"
    /\ chan # <<>>
    /\ result' = PickFirst(result, Head(chan))
    /\ chan' = Tail(chan)
    /\ UNCHANGED <<epc, store, specResult, beads, bi, completed, results,
                   attempts, wg, closed, execResult, effects>>
    /\ UNCHANGED notEngine

\* executeBead lines 155-161: the placeholder when no attempt passed
Finalize(r, beadID) ==
    IF r.SuccessfulIdx < 0 /\ r.Verification.BeadID = 0
    THEN [r EXCEPT !.Verification = [ZeroVerification EXCEPT !.BeadID = beadID]]
    ELSE r

FinalStatusKept(passed, current) == current

FinalStatusReset(passed, current) == BeadSpecified

\* ExecuteAll lines 58-66: the status stored for a processed bead
FinalStatus(passed, current) == IF passed THEN BeadVerified ELSE BeadFailed

\* the range loop ends on the closed, drained channel; executeBead returns
\* and ExecuteAll records the result and the final status
ExecuteBeadReturn ==
    /\ epc = "collect"
    /\ chan = <<>>
    /\ closed
    /\ LET r == Finalize(result, beads[bi].ID)
       IN /\ result' = r
          /\ results' = Append(results, r)
          /\ \E ok \in BOOLEAN :
                IF ok
                THEN /\ store' = UpdateBeadStatus(store, beads[bi].ID,
                            FinalStatus(r.Verification.Passed, StoredStatus))
                     /\ epc' = "exec_loop"
                     /\ bi' = bi + 1
                ELSE store' = store /\ epc' = "error" /\ bi' = bi
          /\ completed' = IF r.Verification.Passed
                          THEN completed \cup {beads[bi].ID} ELSE completed
    /\ UNCHANGED <<specResult, beads, attempts, chan, wg, closed, execResult,
                   effects>>
    /\ UNCHANGED notEngine

\* summarizeFailure: the first failed contract check that carries an error
\* text, else the first failed invariant check, else the first failed
\* threshold check, else "Unknown failure"
summarizeFailure(v) ==
    IF \E i \in 1..Len(v.ContractChecks) :
           ~v.ContractChecks[i].Passed /\ v.ContractChecks[i].Errors > 0
    THEN "Contract"
    ELSE IF \E i \in 1..Len(v.InvariantChecks) : ~v.InvariantChecks[i].Passed
    THEN "Invariant"
    ELSE IF \E i \in 1..Len(v.ThresholdChecks) : ~v.ThresholdChecks[i].Passed
    THEN "Threshold"
    ELSE "Unknown failure"

\* BeadFailure{Bead, Verification, Message} for a result that did not pass
BeadFailureOf(r) ==
    [Bead |-> r.Bead, Verification |-> r.Verification,
     Message |-> summarizeFailure(r.Verification)]

\* Engine.Execute lines 149-166
ExecuteReturn ==
    /\ epc = "exec_loop"
    /\ bi > Len(beads)
    /\ execResult' =
          [returned |-> TRUE, Results |-> results,
           AllPassed |-> \A i \in 1..Len(results) : results[i].Verification.Passed,
           Failures |->
               LET failed == SelectSeq(results, LAMBDA r : ~r.Verification.Passed)
               IN [i \in 1..Len(failed) |-> BeadFailureOf(failed[i])]]
    /\ epc' = "exec_done"
    /\ UNCHANGED <<store, specResult, beads, bi, completed, results, attempts,
                   chan, wg, closed, result, effects>>
    /\ UNCHANGED notEngine

NextEngine ==
    \/ SpecSaveIntent
    \/ SpecCompile
    \/ SpecDecompose
    \/ SpecSaveSpec
    \/ SpecSaveBead
    \/ SpecReturn
    \/ ExecuteLoad
    \/ BeadStart
    \/ ExecuteBeadStart
    \/ \E i \in 1..Parallel : Attempt(i)
    \/ CloseResults
    \/ Collect
    \/ ExecuteBeadReturn
    \/ ExecuteReturn

SpecEngine == InitEngine /\ [][NextEngine]_vars

\* ========================================================================
\* Manifest orchestration flow (src/PLANNING_PLUGIN_DESIGN.md, section 4)
\* ========================================================================
\* number of intents the intents table may hold
MaxIntents == 2

\* number of applyChanges calls followed
MaxApplied == 2

Decisions == {"accept", "refine", "redirect", "abort"}

\* db.updateIntent(intentId, { status })
UpdateIntent(tbl, id, status) == [tbl EXCEPT ![id] = status]

SideEffect(kind, phase) ==
    [kind |-> kind, phase |-> phase, stored |-> intents[mcur]]

\* the call rejects: an awaited AI, shell or database call threw
Reject == mpc' = "idle" /\ mres' = "rejected"

\* manifest(), phase 1: generateId and db.createIntent with status "parsing"
CreateIntent ==
    /\ Len(intents) < MaxIntents
    /\ \E ok \in BOOLEAN :
          IF ok
          THEN /\ intents' = Append(intents, "parsing")
               /\ mcur' = Len(intents) + 1
               /\ mpc' = "parse"
               /\ mres' = mres
          ELSE Reject /\ UNCHANGED <<intents, mcur>>

\* a call of manifest() by the plugin
ManifestStart ==
    /\ mpc = "idle"
    /\ CreateIntent
    /\ UNCHANGED <<mpassed, mdb, applied, effects>>
    /\ UNCHANGED notManifest

ClarifyContinues == "compile"

\* manifest lines 586-592: with ambiguities the call returns at once
ClarifyHalts == "idle"

\* parseIntent and the status update that follows it
ParseIntent ==
    /\ mpc = "parse"
    /\ effects' = effects \cup {SideEffect("ai", "parsing")}
    /\ \E out \in {"throw", "ambiguous", "clear"} :
          CASE out = "throw" -> Reject /\ intents' = intents
            [] out = "ambiguous" ->
                 /\ intents' = UpdateIntent(intents, mcur, "clarifying")
                 /\ mpc' = ClarifyHalts
                 /\ mres' = "needs_clarification"
            [] out = "clear" ->
                 /\ intents' = UpdateIntent(intents, mcur, "compiling")
                 /\ mpc' = "compile"
                 /\ mres' = mres
    /\ UNCHANGED <<mcur, mpassed, mdb, applied>>
    /\ UNCHANGED notManifest

\* analyzeCodebase, generateSpecification, db.createSpec
CompileSpec ==
    /\ mpc = "compile"
    /\ effects' = effects \cup {SideEffect("ai", "compiling")}
    /\ \E ok \in BOOLEAN :
          IF ok
          THEN /\ mdb' = [mdb EXCEPT !.specs = @ \cup {mcur}]
               /\ mpc' = "approve"
               /\ mres' = mres
          ELSE Reject /\ mdb' = mdb
    /\ UNCHANGED <<intents, mcur, mpassed, applied>>
    /\ UNCHANGED notManifest

\* presentSpecToHuman, approved: the status moves to "generating"
SpecApproved ==
    /\ mpc = "approve"
    /\ \E ok \in BOOLEAN :
          IF ok
          THEN /\ intents' = UpdateIntent(intents, mcur, "generating")
               /\ mpc' = "generate"
               /\ mres' = mres
          ELSE Reject /\ intents' = intents
    /\ UNCHANGED <<mcur, mpassed, mdb, applied, effects>>
    /\ UNCHANGED notManifest

\* presentSpecToHuman, not approved: return manifest(refinedMessage, ...)
SpecRefined ==
    /\ mpc = "approve"
    /\ CreateIntent
    /\ UNCHANGED <<mpassed, mdb, applied, effects>>
    /\ UNCHANGED notManifest

\* generateMany, db.createAttempts, status "verifying"
GenerateAttempts ==
    /\ mpc = "generate"
    /\ effects' = effects \cup {SideEffect("attempt", "generating")}
    /\ \E ok \in BOOLEAN :
          IF ok
          THEN /\ mdb' = [mdb EXCEPT !.attempts = @ \cup {mcur}]
               /\ intents' = UpdateIntent(intents, mcur, "verifying")
               /\ mpc' = "verify"
               /\ mres' = mres
          ELSE Reject /\ UNCHANGED <<mdb, intents>>
    /\ UNCHANGED <<mcur, mpassed, applied>>
    /\ UNCHANGED notManifest

\* verifyAll (one workspace per attempt), db.createVerifications, the
\* attempts' statuses, status "ranking"
VerifyAttempts ==
    /\ mpc = "verify"
    /\ effects' = effects \cup {SideEffect("workspace", "verifying")}
    /\ \E out \in {"throw", "none_passed", "some_passed"} :
          IF out = "throw"
          THEN Reject /\ UNCHANGED <<mdb, intents, mpassed>>
          ELSE /\ mdb' = [mdb EXCEPT !.verifications = @ \cup {mcur}]
               /\ intents' = UpdateIntent(intents, mcur, "ranking")
               /\ mpassed' = (out = "some_passed")
               /\ mpc' = "rank"
               /\ mres' = mres
    /\ UNCHANGED <<mcur, applied>>
    /\ UNCHANGED notManifest

ZeroPassedThrows == "rejected"

\* manifest lines 648-652: return { status: "no_survivors", failures,
\* suggestion }
ZeroPassedResult == "no_survivors"

\* passed.length === 0: the failures are returned, the status stays
NoSurvivors ==
    /\ mpc = "rank"
    /\ ~mpassed
    /\ mpc' = "idle"
    /\ mres' = ZeroPassedResult
    /\ UNCHANGED <<intents, mcur, mpassed, mdb, applied, effects>>
    /\ UNCHANGED notManifest

\* rankSurvivors, db.createSurvivors, status "judging", survivors_ready
RankSurvivors ==
    /\ mpc = "rank"
    /\ mpassed
    /\ effects' = effects \cup {SideEffect("ai", "ranking")}
    /\ \E ok \in BOOLEAN :
          IF ok
          THEN /\ mdb' = [mdb EXCEPT !.survivors = @ \cup {mcur}]
               /\ intents' = UpdateIntent(intents, mcur, "judging")
               /\ mpc' = "idle"
               /\ mres' = "survivors_ready"
          ELSE Reject /\ UNCHANGED <<mdb, intents>>
    /\ UNCHANGED <<mcur, mpassed, applied>>
    /\ UNCHANGED notManifest

\* ---- handleJudgment(intentId, judgment) ----
\* db.createJudgment(judgment): the table is kept as the intents judged
CreateJudgment(db, k, decision) ==
    [db EXCEPT !.judgments = @ \cup {k}]

\* case "accept": getAttempt, applyChanges, then status "complete"
JudgeAccept(k) ==
    /\ mpc = "idle"
    /\ k \in 1..Len(intents)
    /\ Len(applied) < MaxApplied
    /\ mdb' = CreateJudgment(mdb, k, "accept")
    /\ \E ok \in BOOLEAN :
          IF ok /\ mdb.attempts # {}
          THEN /\ applied' = Append(applied, k)
               /\ intents' = UpdateIntent(intents, k, "complete")
               /\ mres' = "complete"
          ELSE /\ mres' = "rejected"
               /\ UNCHANGED <<applied, intents>>
    /\ UNCHANGED <<mpc, mcur, mpassed, effects>>
    /\ UNCHANGED notManifest

\* case "refine", case "redirect": getIntent, then manifest() again
JudgeRestart(k, decision) ==
    /\ mpc = "idle"
    /\ k \in 1..Len(intents)
    /\ mdb' = CreateJudgment(mdb, k, decision)
    /\ CreateIntent
    /\ UNCHANGED <<mpassed, applied, effects>>
    /\ UNCHANGED notManifest

\* case "abort": the status written is "failed", the result "aborted"
JudgeAbort(k) ==
    /\ mpc = "idle"
    /\ k \in 1..Len(intents)
    /\ mdb' = CreateJudgment(mdb, k, "abort")
    /\ \E ok \in BOOLEAN :
          IF ok
          THEN /\ intents' = UpdateIntent(intents, k, "failed")
               /\ mres' = "aborted"
          ELSE mres' = "rejected" /\ intents' = intents
    /\ UNCHANGED <<mpc, mcur, mpassed, applied, effects>>
    /\ UNCHANGED notManifest

NextManifest ==
    \/ ManifestStart
    \/ ParseIntent
    \/ CompileSpec
    \/ SpecApproved
    \/ SpecRefined
    \/ GenerateAttempts
    \/ VerifyAttempts
    \/ NoSurvivors
    \/ RankSurvivors
    \/ \E k \in 1..MaxIntents : JudgeAccept(k)
    \/ \E k \in 1..MaxIntents : \E d \in {"refine", "redirect"} : JudgeRestart(k, d)
    \/ \E k \in 1..MaxIntents : JudgeAbort(k)

InitManifest ==
    /\ mpc = "idle"
    /\ ManifestFresh
    /\ VerifyIdle
    /\ DecomposeIdle
    /\ NotifierIdle
    /\ EngineIdle
    /\ effects = {}
    /\ HarnessIdle

SpecManifest == InitManifest /\ [][NextManifest]_vars

\* ========================================================================
\* The verifiers on their own: Verify, verifyOne's verdict, survived
\* ========================================================================
\* verifyOne: passed = typecheck.passed && lint.passed && unitTests.passed
\* && specTests.passed (a timed-out check counts as not passed)
VerifyOneResult(stages) ==
    [passed |-> /\ stages["typecheck"] /\ stages["lint"]
                /\ stages["unitTests"] /\ stages["specTests"],
     checks |-> stages]

FilterAll(stages) == TRUE

\* verification.survived
Survived(stages) ==
    IF /\ stages["typecheck"] /\ stages["lint"]
       /\ stages["unitTests"] /\ stages["specTests"]
    THEN TRUE ELSE FALSE

InitVerify ==
    /\ \/ \E c \in VerifyContracts, impl \in VerifyImpls :
             vin = [kind |-> "bead", contract |-> c, impl |-> impl,
                    stages |-> NoStages]
       \/ \E st \in [Stages -> BOOLEAN] :
             vin = [NoVerifyInput EXCEPT !.kind = "attempt", !.stages = st]
    /\ VerifyFresh
    /\ EngineIdle
    /\ ManifestIdle
    /\ DecomposeIdle
    /\ NotifierIdle
    /\ effects = {}
    /\ HarnessIdle

\* CUEVerifier.Verify(ctx, bead, implementation)
VerifyCall ==
    /\ vin.kind = "bead"
    /\ "Verify" \notin vdone
    /\ vout' = Verify([ID |-> 1, Contract |-> vin.contract], vin.impl)
    /\ vdone' = vdone \cup {"Verify"}
    /\ UNCHANGED <<vin, vts, vsurv>>
    /\ UNCHANGED notVerify

\* verifyOne(attempt, spec), its checks having run
VerifyOneCall ==
    /\ vin.kind = "attempt"
    /\ "verifyOne" \notin vdone
    /\ vts' = VerifyOneResult(vin.stages)
    /\ vdone' = vdone \cup {"verifyOne"}
    /\ UNCHANGED <<vin, vout, vsurv>>
    /\ UNCHANGED notVerify

\* verification.survived(v)
SurvivedCall ==
    /\ vin.kind = "attempt"
    /\ "survived" \notin vdone
    /\ vsurv' = Survived(vin.stages)
    /\ vdone' = vdone \cup {"survived"}
    /\ UNCHANGED <<vin, vout, vts>>
    /\ UNCHANGED notVerify

NextVerify == VerifyCall \/ VerifyOneCall \/ SurvivedCall

SpecVerify == InitVerify /\ [][NextVerify]_vars

AllPassed(checks) == \A i \in 1..Len(checks) : checks[i].Passed

InitOrchestration == InitManifest \/ InitEngine

NextOrchestration == NextManifest \/ NextEngine

SpecOrchestration == InitOrchestration /\ [][NextOrchestration]_vars

\* ========================================================================
\* Properties of the orchestrators
\* ========================================================================

\* C1: every AI call, workspace creation or attempt start found the status
\* of its phase already stored (the Intent's status in the manifest flow,
\* the bead's status in the engine).
StatusStoredBeforeEffects == \A e \in effects : e.stored = e.phase

\* an attempt goroutine of a bead has started its AI call
AttemptHasStarted ==
    \E e \in effects : e.kind = "attempt" /\ e.phase = BeadVerifying

StatusRank(s) ==
    CASE s = "parsing" -> 1
      [] s = "clarifying" -> 2
      [] s = "compiling" -> 3
      [] s = "generating" -> 4
      [] s = "verifying" -> 5
      [] s = "ranking" -> 6
      [] s = "judging" -> 7
      [] s \in {"complete", "failed", "aborted"} -> 8

TerminalStatus(s) == s \in {"complete", "failed", "aborted"}

\* C2: the status of an Intent never moves to an earlier phase and, once
\* complete, failed or aborted, never changes again.
IntentStatusMonotone ==
    [][\A k \in 1..Len(intents) :
          /\ StatusRank(intents'[k]) >= StatusRank(intents[k])
          /\ TerminalStatus(intents[k]) => intents'[k] = intents[k]]_vars

UnclearHaltsCompilation ==
    /\ (mpc = "idle" /\ mres = "needs_clarification") =>
          intents[mcur] = "clarifying"
    /\ \A k \in 1..Len(intents) :
          intents[k] = "clarifying" =>
             /\ k \notin mdb.specs
             /\ k \notin mdb.attempts
             /\ k = mcur => mpc = "idle"

\* a second message was found unclear after the first one got its
\* Specification
ClarificationAskedBesideSpec ==
    /\ mpc = "idle"
    /\ mres = "needs_clarification"
    /\ mcur = 2
    /\ intents[2] = "clarifying"
    /\ mdb.specs = {1}

\* number of applyChanges calls the log holds for intent k
AppliedTimes(log, k) == Cardinality({i \in 1..Len(log) : log[i] = k})

\* C22: an accept judgment on an Intent that is already complete is a
\* no-op: the survivor's file changes are not applied a second time.
AcceptOnCompleteIsNoOp ==
    [][\A k \in 1..Len(intents) :
          intents[k] = "complete" =>
             AppliedTimes(applied', k) = AppliedTimes(applied, k)]_vars

\* C23: after an abort judgment, and after a redirect judgment, the judged
\* Intent's status is aborted.
JudgedIntentAborted ==
    [][\A k \in 1..Len(intents) :
          /\ (JudgeAbort(k) /\ mres' = "aborted") => intents'[k] = "aborted"
          /\ (JudgeRestart(k, "redirect") /\ mpc' = "parse") =>
                intents'[k] = "aborted"]_vars

\* the collector's range loop has ended: the channel is closed and drained
BatchCollected == epc = "collect" /\ closed /\ chan = <<>>

\* C4: when an attempt of a batch ended in an error, every sibling still
\* ran and was counted, and if a sibling passed, the bead's result carries a
\* passing attempt.
AttemptErrorsIsolated ==
    (BatchCollected /\ \E j \in 1..Parallel : attempts[j] = "err") =>
        /\ \A i \in 1..Parallel : attempts[i] \in GenerateOutcomes
        /\ result.Attempts = Parallel
        /\ (\E i \in 1..Parallel : attempts[i] = "good") =>
               /\ result.SuccessfulIdx \in 1..Parallel
               /\ attempts[result.SuccessfulIdx] = "good"
               /\ result.Implementation = "good"
               /\ result.Verification.Passed

\* a batch was collected in which one attempt failed and a sibling passed
ErrorBesidePassingSibling ==
    /\ BatchCollected
    /\ \E j \in 1..Parallel : attempts[j] = "err"
    /\ \E i \in 1..Parallel : attempts[i] = "good"
    /\ result.SuccessfulIdx >= 0

\* the steps of executeBead's goroutines and of its collector
BatchStep ==
    \/ \E i \in 1..Parallel : Attempt(i)
    \/ CloseResults
    \/ Collect
    \/ ExecuteBeadReturn

\* C5: the results channel is closed only after every attempt goroutine has
\* ended; the collector leaves its loop only after it has received every
\* attempt's report; a running attempt can always send, and while the batch
\* is being collected some goroutine or the collector can always step.
BatchCompletesWhenAllTerminated ==
    /\ closed => \A i \in 1..Parallel : attempts[i] \in GenerateOutcomes
    /\ BatchCollected => result.Attempts = Parallel
    /\ \A i \in 1..Parallel :
          (epc = "collect" /\ attempts[i] = "run") => ENABLED Attempt(i)
    /\ epc = "collect" => ENABLED BatchStep

\* the collector has received all Parallel reports and is about to return
AllAttemptsReported ==
    BatchCollected /\ result.Attempts = Parallel /\ wg = 0

\* what executeBead has picked so far
Picked(r) == <<r.SuccessfulIdx, r.Implementation, r.Verification>>

\* the collector receives the next report from the channel
Receives == epc = "collect" /\ chan # <<>> /\ chan' = Tail(chan)

\* C10: the first passing report the collector receives becomes the bead's
\* result, with its implementation and its verification; once a passing
\* attempt is picked, no later report replaces it; a picked attempt passed.
FirstPassingAttemptKept ==
    /\ [](result.SuccessfulIdx >= 0 =>
             result.Verification.Passed /\ result.Implementation # "nil")
    /\ [][Receives =>
             LET res == Head(chan) IN
             IF result.SuccessfulIdx >= 0
             THEN Picked(result') = Picked(result)
             ELSE IF ~res.err /\ res.verification.Passed
                  THEN Picked(result') =
                          <<res.idx, res.implementation, res.verification>>
                  ELSE result'.SuccessfulIdx < 0]_vars

\* two attempts of the batch passed, and the collector has received both
TwoPassingAttemptsCollected ==
    /\ BatchCollected
    /\ Cardinality({i \in 1..Parallel : attempts[i] = "good"}) >= 2
    /\ result.SuccessfulIdx >= 0

\* C8: when Engine.Spec has returned, the intent, the spec and every bead
\* are in the Store; Engine.Execute works on the beads it read from the
\* Store; when Engine.Execute has returned, the verification of every bead
\* it reports is in the Store.
ArtifactsPersistedBeforeCompletion ==
    /\ epc \notin {"off", "error", "spec_start", "spec_compile",
                   "spec_decompose", "spec_save", "spec_save_beads"} =>
          /\ store.intent
          /\ store.specSaved
          /\ \A i \in 1..Len(specResult) : specResult[i].ID \in DOMAIN store.beads
    /\ epc \in {"exec_loop", "exec_bead", "collect", "exec_done"} =>
          /\ Len(beads) = Len(store.order)
          /\ \A i \in 1..Len(beads) : beads[i].ID = store.order[i]
    /\ execResult.returned =>
          \A i \in 1..Len(execResult.Results) :
              execResult.Results[i].Verification.BeadID \in store.verifications

\* the places in the list of the beads whose loop iteration ExecuteAll has
\* completed
Processed ==
    IF epc \in {"exec_loop", "exec_bead", "collect", "exec_done",
                "error_dependency"}
    THEN 1..(bi - 1) ELSE {}

\* C11: a bead ExecuteAll has processed is stored as verified or failed,
\* verified exactly when its result's Verification.Passed is true; it is
\* never left in_progress or verifying.
NoPartialSuccess ==
    \A i \in Processed :
        LET status == store.beads[beads[i].ID].Status
        IN /\ status \in {BeadVerified, BeadFailed}
           /\ (status = BeadVerified) <=> results[i].Verification.Passed

\* both beads of a spec are processed, one verified and one failed
OneVerifiedOneFailed ==
    /\ Processed = {1, 2}
    /\ results[1].Verification.Passed
    /\ ~results[2].Verification.Passed
    /\ store.beads[beads[2].ID].Status = BeadFailed

\* C12: a failing bead does not stop execution: when ExecuteAll ends, on the
\* dependency check or after the last bead, Execute has returned a
\* verification result for every bead of the spec's order.
ResultForEveryBead ==
    epc \in {"error_dependency", "exec_done"} =>
        /\ execResult.returned
        /\ Len(execResult.Results) = Len(store.order)
        /\ \A i \in 1..Len(store.order) :
               execResult.Results[i].Verification.BeadID = store.order[i]

\* the check a failure message names has failed in that verification
NamesFailedCheck(f) ==
    \/ /\ f.Message = "Contract"
       /\ \E i \in 1..Len(f.Verification.ContractChecks) :
              ~f.Verification.ContractChecks[i].Passed
    \/ /\ f.Message = "Invariant"
       /\ \E i \in 1..Len(f.Verification.InvariantChecks) :
              ~f.Verification.InvariantChecks[i].Passed
    \/ /\ f.Message = "Threshold"
       /\ \E i \in 1..Len(f.Verification.ThresholdChecks) :
              ~f.Verification.ThresholdChecks[i].Passed

\* C13: every entry of Failures carries a message that names the failing
\* contract, invariant or threshold check of that bead's verification.
FailuresNameFailedCheck ==
    execResult.returned =>
        \A i \in 1..Len(execResult.Failures) :
            NamesFailedCheck(execResult.Failures[i])

\* the place of a bead status in the workflow of a run
BeadStatusRank(s) ==
    CASE s = BeadSpecified -> 1
      [] s = BeadInProgress -> 2
      [] s = BeadVerifying -> 3
      [] s \in {BeadVerified, BeadFailed} -> 4

\* C35: within a run the status the Store holds for a bead only moves
\* forward, one place at a time, along specified, in_progress, verifying,
\* then verified or failed; the status of a bead that is verified or
\* failed never changes again.
BeadStatusMovesForward ==
    [][\A id \in DOMAIN store.beads :
          LET old == store.beads[id].Status
              new == store'.beads[id].Status
          IN /\ id \in DOMAIN store'.beads
             /\ new # old => BeadStatusRank(new) = BeadStatusRank(old) + 1
             /\ old \in {BeadVerified, BeadFailed} => new = old]_vars

\* the first bead of a spec has failed and stays failed while the second
\* is being verified
FailedBeadBehindVerifyingBead ==
    /\ Len(beads) = 2
    /\ bi = 2
    /\ store.beads[beads[1].ID].Status = BeadFailed
    /\ store.beads[beads[2].ID].Status = BeadVerifying
    /\ closed

\* ========================================================================
\* Bead decomposer (decomposer.go, src/unnamed/part_005)
\* ========================================================================
\* beads the AI returns for the contracts
MaxRaw == 2

\* beads the AI returns when asked to split one
MaxSplit == 2

\* the names of the outputs beads produce and require
Outputs == {"a", "b"}

BeadSizes == {"xs", "s", "m", "l"}

\* the sizes the AI gives to the parts of a split bead
SplitSizes == {"xs", "m"}

\* NewBeadDecomposer: maxBeadSize: BeadS
maxBeadSize == "s"

\* the bytes of a BeadSize (a Go string)
SizeBytes(size) ==
    CASE size = "xs" -> <<120, 115>>
      [] size = "s" -> <<115>>
      [] size = "m" -> <<109>>
      [] size = "l" -> <<108>>

\* Go's <= on strings: bytewise, a proper prefix being smaller
RECURSIVE BytesLeq(_, _)
BytesLeq(a, b) ==
    IF a = <<>> THEN TRUE
    ELSE IF b = <<>> THEN FALSE
    ELSE IF Head(a) < Head(b) THEN TRUE
    ELSE IF Head(a) > Head(b) THEN FALSE
    ELSE BytesLeq(Tail(a), Tail(b))

\* ensureSmallBeads: bead.Size <= d.maxBeadSize
SmallEnough(size) == BytesLeq(SizeBytes(size), SizeBytes(maxBeadSize))

\* what the AI may say of a bead; the order of a bead's requires has no
\* bearing on what follows, so one order stands for all
RequireLists == {<<>>, <<"a">>, <<"b">>, <<"a", "b">>}

RawShapes ==
    [Requires : RequireLists, Produces : SUBSET Outputs, Size : BeadSizes]

\* decomposeContract for every contract: the beads get fresh ids
DecomposeContracts ==
    /\ dpc = "start"
    /\ \/ \E n \in 0..MaxRaw : \E raw \in [1..n -> RawShapes] :
             /\ dbeads' = [i \in 1..n |->
                              [ID |-> i, Requires |-> raw[i].Requires,
                               Produces |-> raw[i].Produces,
                               Size |-> raw[i].Size]]
             /\ dnext' = n + 1
             /\ di' = 1
             /\ dpc' = "ensure"
       \/ dpc' = "error" /\ UNCHANGED <<dbeads, dnext, di>>
    /\ UNCHANGED <<dsmall, inDegree, adj, queue, dresult>>
    /\ UNCHANGED notDecompose

\* splitBead: every part inherits Requires and Produces, and has its own id
SplitBead(bead, sizes, first) ==
    [i \in 1..Len(sizes) |->
        [ID |-> first + i - 1, Requires |-> bead.Requires,
         Produces |-> bead.Produces, Size |-> sizes[i]]]

\* ensureSmallBeads, one turn of its loop
EnsureSmallBead ==
    /\ dpc = "ensure"
    /\ di <= Len(dbeads)
    /\ IF SmallEnough(dbeads[di].Size)
       THEN /\ dsmall' = Append(dsmall, dbeads[di])
            /\ di' = di + 1
            /\ UNCHANGED <<dpc, dnext>>
       ELSE \/ \E k \in 0..MaxSplit : \E sizes \in [1..k -> SplitSizes] :
                  /\ dsmall' = dsmall \o SplitBead(dbeads[di], sizes, dnext)
                  /\ dnext' = dnext + k
                  /\ di' = di + 1
                  /\ dpc' = dpc
            \/ dpc' = "error" /\ UNCHANGED <<dsmall, dnext, di>>
    /\ UNCHANGED <<dbeads, inDegree, adj, queue, dresult>>
    /\ UNCHANGED notDecompose

\* ensureSmallBeads returns; Decompose assigns allBeads
EnsureSmallReturn ==
    /\ dpc = "ensure"
    /\ di > Len(dbeads)
    /\ dbeads' = dsmall
    /\ dpc' = "resolve"
    /\ UNCHANGED <<di, dsmall, dnext, inDegree, adj, queue, dresult>>
    /\ UNCHANGED notDecompose

\* ---- resolveDependencies ----
Max(S) == CHOOSE x \in S : \A y \in S : y <= x

Producers(bl, p) == {i \in 1..Len(bl) : p \in bl[i].Produces}

\* produces[p] = bead.ID, the last bead that produces p winning
ProducerOf(bl, p) == bl[Max(Producers(bl, p))].ID

\* the requires that name a produced output, as the producing beads' ids
Resolved(bl, reqs) ==
    LET known == SelectSeq(reqs, LAMBDA r : Producers(bl, r) # {})
    IN [j \in 1..Len(known) |-> ProducerOf(bl, known[j])]

ResolveDependencies ==
    /\ dpc = "resolve"
    /\ dbeads' = [i \in 1..Len(dbeads) |->
                     [dbeads[i] EXCEPT !.Requires = Resolved(dbeads, @)]]
    /\ dpc' = "graph"
    /\ UNCHANGED <<di, dsmall, dnext, inDegree, adj, queue, dresult>>
    /\ UNCHANGED notDecompose

\* ---- topologicalSort ----
DependencyEdgeReversed(id, req) == [from |-> id, to |-> req]

\* adj[req] = append(adj[req], bead.ID); inDegree[bead.ID]++
DependencyEdge(id, req) == [from |-> req, to |-> id]

\* the edges in the order the two loops meet them
RECURSIVE EdgesOf(_)
EdgesOf(bl) ==
    IF bl = <<>> THEN <<>>
    ELSE LET b == bl[Len(bl)]
         IN EdgesOf(SubSeq(bl, 1, Len(bl) - 1)) \o
            [j \in 1..Len(b.Requires) |-> DependencyEdge(b.ID, b.Requires[j])]

IdsOf(bl) == {bl[i].ID : i \in 1..Len(bl)}

BuildGraph ==
    /\ dpc = "graph"
    /\ LET edges == EdgesOf(dbeads)
       IN /\ inDegree' = [id \in IdsOf(dbeads) |->
                 Cardinality({e \in 1..Len(edges) : edges[e].to = id})]
          /\ adj' = [id \in IdsOf(dbeads) |->
                 LET out == SelectSeq(edges, LAMBDA e : e.from = id)
                 IN [e \in 1..Len(out) |-> out[e].to]]
    /\ dpc' = "seed"
    /\ UNCHANGED <<dbeads, di, dsmall, dnext, queue, dresult>>
    /\ UNCHANGED notDecompose

\* every order in which a range over a map may visit the keys in S
RECURSIVE Orders(_)
Orders(S) ==
    IF S = {} THEN {<<>>}
    ELSE UNION {{<<x>> \o o : o \in Orders(S \ {x})} : x \in S}

\* for id, degree := range inDegree: the beads with no dependencies
SeedQueue ==
    /\ dpc = "seed"
    /\ \E q \in Orders({id \in DOMAIN inDegree : inDegree[id] = 0}) :
          queue' = q
    /\ dpc' = "sort"
    /\ UNCHANGED <<dbeads, di, dsmall, dnext, inDegree, adj, dresult>>
    /\ UNCHANGED notDecompose

\* for _, next := range adj[id]: inDegree[next]--, queued when it reaches 0
RECURSIVE Relax(_, _, _)
Relax(deg, q, nexts) ==
    IF nexts = <<>> THEN [deg |-> deg, q |-> q]
    ELSE LET n == Head(nexts)
             d == [deg EXCEPT ![n] = @ - 1]
         IN Relax(d, IF d[n] = 0 THEN Append(q, n) ELSE q, Tail(nexts))

BeadOf(bl, id) == bl[CHOOSE i \in 1..Len(bl) : bl[i].ID = id]

\* one turn of the loop over the queue
SortStep ==
    /\ dpc = "sort"
    /\ queue # <<>>
    /\ LET id == Head(queue)
           r == Relax(inDegree, Tail(queue), adj[id])
       IN /\ dresult' = Append(dresult, BeadOf(dbeads, id))
          /\ inDegree' = r.deg
          /\ queue' = r.q
    /\ UNCHANGED <<dpc, dbeads, di, dsmall, dnext, adj>>
    /\ UNCHANGED notDecompose

\* len(result) != len(beads): circular dependency detected
SortReturn ==
    /\ dpc = "sort"
    /\ queue = <<>>
    /\ dpc' = IF Len(dresult) # Len(dbeads) THEN "error" ELSE "done"
    /\ UNCHANGED <<dbeads, di, dsmall, dnext, inDegree, adj, queue, dresult>>
    /\ UNCHANGED notDecompose

NextDecompose ==
    \/ DecomposeContracts
    \/ EnsureSmallBead
    \/ EnsureSmallReturn
    \/ ResolveDependencies
    \/ BuildGraph
    \/ SeedQueue
    \/ SortStep
    \/ SortReturn

InitDecompose ==
    /\ dpc = "start"
    /\ DecomposeFresh
    /\ EngineIdle
    /\ ManifestIdle
    /\ VerifyIdle
    /\ NotifierIdle
    /\ effects = {}
    /\ HarnessIdle

SpecDecomposer == InitDecompose /\ [][NextDecompose]_vars

\* C9: in the list Decompose returns, which Engine.Spec stores as the
\* spec's order and ExecuteAll walks from first to last, every bead comes
\* after every bead it requires.
BeadsInDependencyOrder ==
    dpc = "done" =>
        \A i \in 1..Len(dresult) : \A j \in 1..Len(dresult[i].Requires) :
            \E k \in 1..(i - 1) : dresult[k].ID = dresult[i].Requires[j]

\* Decompose returned a list in which a bead that requires another was
\* moved behind a bead created after it
SortedBehindDependency ==
    /\ dpc = "done"
    /\ \E i \in 1..Len(dresult) :
          /\ dresult[i].Requires # <<>>
          /\ \E k \in 1..(i - 1) : dresult[k].ID > dresult[i].ID

\* C14: every bead of the list Decompose returns has size XS or S; no bead
\* of size M or L remains.
DecomposedBeadsAreSmall ==
    dpc = "done" =>
        \A i \in 1..Len(dresult) : dresult[i].Size \in {"xs", "s"}

\* ========================================================================
\* Hyprland notifier plugins: HyprNotifierPlugin (src/src/hypr-notifier.ts)
\* and HyprlandNotifierPlugin (opencode-hypr-notifier.ts, src/unnamed/part_002)
\* ========================================================================
\* events delivered to the hook in one run
MaxEvents == 2

\* plugin instantiations in one process
MaxPlugins == 2

\* ErrorLogger: MAX_LOG_ENTRIES
MAX_LOG_ENTRIES == 100

Plugins == {"HyprNotifierPlugin", "HyprlandNotifierPlugin"}

\* opencode-hyprland.json: absent, not JSON, or JSON whose notification
\* field is true, false, or not a boolean
CfgFiles == {"missing", "invalid", "enabled", "disabled", "wrongtype"}

\* event.type: the handled types, an empty type, and two names every
\* JavaScript object inherits
EventTypes ==
    {"permission.updated", "session.complete", "task.complete",
     "session.idle", "session.updated", "session.error", "",
     "__proto__", "constructor"}

\* event.properties: a plain object, null, a string, or an object holding
\* a value that cannot be converted to a string
PropsKinds == {"object", "null", "string", "hostile"}

\* DEFAULT_CONFIG
DEFAULT_CONFIG == [loaded |-> TRUE, notification |-> TRUE]

\* what loadConfig makes of the file (both modules: a boolean notification
\* field is taken, anything else gives the default)
ConfigOf(file) ==
    IF file = "disabled" THEN [loaded |-> TRUE, notification |-> FALSE]
    ELSE DEFAULT_CONFIG

\* ErrorLogger.log: push, then pruneOldLogs keeps the last MAX_LOG_ENTRIES
\* (the entries of a run are younger than the retention period)
LogPushed(n) == IF n + 1 > MAX_LOG_ENTRIES THEN MAX_LOG_ENTRIES ELSE n + 1

RECURSIVE LogPushedTimes(_, _)
LogPushedTimes(n, k) == IF k = 0 THEN n ELSE LogPushedTimes(LogPushed(n), k - 1)

\* The plugin function: loadConfig, the initialization message, the hooks.
\* loadConfig of HyprNotifierPlugin returns the cache when cachedConfig is
\* not null; loadConfig of HyprlandNotifierPlugin does when
\* configLoadAttempted is set, and logs one entry on its first load.
CacheNeverHit(p, cached, attempted) == FALSE

\* if (cachedConfig !== null) return cachedConfig
\* if (configLoadAttempted) return cachedConfig ?? DEFAULT_CONFIG
CacheHit(p, cached, attempted) ==
    IF p = "HyprNotifierPlugin" THEN cached.loaded ELSE attempted

PluginInit ==
    /\ plugin \in Plugins
    /\ Len(instances) < MaxPlugins
    /\ LET hit == CacheHit(plugin, cachedConfig, configLoadAttempted)
           config == IF hit THEN cachedConfig ELSE ConfigOf(cfgFile)
       IN /\ cachedConfig' = config
          /\ loads' = IF hit THEN loads ELSE loads + 1
          /\ instances' = Append(instances, config)
          /\ IF plugin = "HyprNotifierPlugin"
             THEN /\ initialized' = TRUE
                  /\ initLogs' = IF initialized THEN initLogs ELSE initLogs + 1
                  /\ UNCHANGED <<configLoadAttempted, logs>>
             ELSE /\ configLoadAttempted' = TRUE
                  /\ initLogs' = IF ~configLoadAttempted' \/ ~cachedConfig'.loaded
                                 THEN initLogs + 1 ELSE initLogs
                  /\ logs' = LogPushedTimes(logs,
                                (IF hit THEN 0 ELSE 1) +
                                (IF initLogs' > initLogs THEN 1 ELSE 0))
                  /\ UNCHANGED initialized
    /\ UNCHANGED <<plugin, cfgFile, idleNotificationSent, calls, spawned,
                   tick>>
    /\ UNCHANGED notNotifier

\* ---- HyprNotifierPlugin: handleEvent ----
\* eventMap[event.type]: eventMap is a plain object, so the names every
\* object inherits are found in it (the value is truthy and no EventKey)
eventMap(type) ==
    CASE type = "permission.updated" -> "permission"
      [] type \in {"session.complete", "task.complete"} -> "session"
      [] type = "session.idle" -> "idle"
      [] type \in {"__proto__", "constructor"} -> "inherited"
      [] OTHER -> "undefined"

\* buildBody throws when it joins or interpolates a value that cannot be
\* converted to a string; the generic branch only copies a string title
buildBodyThrows(type, props) ==
    /\ props = "hostile"
    /\ type \in {"permission.updated", "session.complete", "task.complete",
                 "session.idle"}

NotificationOffIgnored(config) == FALSE

\* if (!config.notification) return
NotificationOff(config) == ~config.notification

IdleNeverSuppressed(key, idle) == FALSE

\* if (key === "idle") { if (idleNotificationSent) return ... }
IdleAlreadySent(key, idle) == key = "idle" /\ idle

\* handleEvent up to sendNotification: whether it threw, whether it built
\* the notify-send command, and the idle flag it leaves
handleEventIdle(type, props, config, idle) ==
    LET key == eventMap(type)
        stay == [threw |-> FALSE, send |-> FALSE, idle |-> idle]
    IN IF NotificationOff(config) THEN stay
       ELSE IF key = "undefined" THEN stay
       ELSE IF IdleAlreadySent(key, idle) THEN stay
       ELSE LET flag == IF key = "idle" THEN TRUE
                        ELSE IF key \in {"permission", "session"} THEN FALSE
                        ELSE idle
            IN IF buildBodyThrows(type, props)
               THEN [threw |-> TRUE, send |-> FALSE, idle |-> flag]
               ELSE [threw |-> FALSE, send |-> TRUE, idle |-> flag]

\* ---- HyprlandNotifierPlugin: the handler map and handleEvent ----
\* eventHandlers[event.type]: a frozen plain object; "constructor" finds
\* Object, which can be called, "__proto__" finds Object.prototype, which
\* cannot
eventHandlers(type) ==
    CASE type \in {"permission.updated", "session.idle", "session.updated",
                   "session.complete", "task.complete", "session.error"}
             -> "handleEvent"
      [] type = "constructor" -> "callable"
      [] type = "__proto__" -> "not_callable"
      [] OTHER -> "undefined"

\* buildEventBody: the session and error bodies interpolate the session id
\* unchecked; the permission body checks every value it uses
buildEventBodyThrows(type, props) ==
    /\ props = "hostile"
    /\ type \in {"session.idle", "session.updated", "session.complete",
                 "task.complete", "session.error"}

\* the hook's try block up to sendNotification: whether it threw, whether
\* it built the notify-send command, and the entries it logged
handleEventLogged(type, props, config) ==
    LET handler == eventHandlers(type)
        quiet == [threw |-> FALSE, send |-> FALSE, logged |-> 0]
    IN CASE handler = "undefined" -> [quiet EXCEPT !.logged = 1]
         [] handler = "callable" -> quiet
         [] handler = "not_callable" -> [quiet EXCEPT !.threw = TRUE]
         [] handler = "handleEvent" ->
              IF NotificationOff(config) THEN quiet
              ELSE IF props \notin {"object", "hostile"} THEN quiet
              ELSE IF buildEventBodyThrows(type, props)
                   THEN [quiet EXCEPT !.threw = TRUE]
                   ELSE [quiet EXCEPT !.send = TRUE]

HookOutcomeUncaught(threw) == IF threw THEN "rejected" ELSE "resolved"

\* the hook's try/catch: what handleEvent throws is logged, not rethrown
HookOutcome(threw) == "resolved"

\* how the executor answers: it throws before the process runs, or the
\* process runs and the hook waits for it
ExecutorAnswers == {"throws", "runs"}

\* how a started process ends: exit code 0, another code, no code, or the
\* executor's promise rejects
ExitOutcomes == {"zero", "nonzero", "null", "rejects"}

\* One call of the event hook, up to the point where it waits for the
\* process or returns; bound is the number of calls followed.
HookCallUpTo(bound, inst, type, props, answer) ==
    /\ plugin \in Plugins
    /\ inst \in 1..Len(instances)
    /\ Len(calls) < bound
    /\ LET config == instances[inst]
           a == handleEventIdle(type, props, config, idleNotificationSent)
           b == handleEventLogged(type, props, config)
           threw == IF plugin = "HyprNotifierPlugin" THEN a.threw ELSE b.threw
           send == IF plugin = "HyprNotifierPlugin" THEN a.send ELSE b.send
           pc == IF send /\ answer = "runs" THEN "awaiting"
                 ELSE HookOutcome(threw)
       IN /\ calls' = Append(calls, [type |-> type, props |-> props,
                                     pc |-> pc, caught |-> threw,
                                     sent |-> send])
          /\ spawned' = IF send THEN spawned + 1 ELSE spawned
          /\ idleNotificationSent' =
                IF plugin = "HyprNotifierPlugin" THEN a.idle
                ELSE idleNotificationSent
          /\ logs' =
                IF plugin = "HyprNotifierPlugin" THEN logs
                ELSE LogPushedTimes(logs,
                        b.logged + (IF threw THEN 1 ELSE 0) +
                        (IF send /\ answer = "throws" THEN 2 ELSE 0))
    /\ UNCHANGED <<plugin, cfgFile, cachedConfig, configLoadAttempted,
                   initialized, instances, initLogs, loads, tick>>
    /\ UNCHANGED notNotifier

HookCall(inst, type, props, answer) ==
    HookCallUpTo(MaxEvents, inst, type, props, answer)

\* what the event loop leaves behind when it turns: every call dispatched
\* so far began in an earlier turn
Turned == [start |-> Len(calls), idle |-> idleNotificationSent]

\* The process of a waiting call ends and the call runs to its end:
\* executeCommand returns the exit code; executeShellCommand logs a failed
\* command and sendNotification logs "Notification sent". The exit is
\* delivered by the event loop, after the calls dispatched before it.
ProcessExit(c, outcome) ==
    /\ c \in 1..Len(calls)
    /\ calls[c].pc = "awaiting"
    /\ calls' = [calls EXCEPT ![c].pc = HookOutcome(FALSE)]
    /\ tick' = Turned
    /\ logs' = IF plugin = "HyprNotifierPlugin" THEN logs
               ELSE LogPushedTimes(logs, IF outcome = "zero" THEN 1 ELSE 2)
    /\ UNCHANGED <<plugin, cfgFile, cachedConfig, configLoadAttempted,
                   initialized, idleNotificationSent, instances, spawned,
                   initLogs, loads>>
    /\ UNCHANGED notNotifier

NextNotifier ==
    \/ PluginInit
    \/ \E inst \in 1..MaxPlugins, type \in EventTypes, props \in PropsKinds,
          answer \in ExecutorAnswers : HookCall(inst, type, props, answer)
    \/ \E c \in 1..MaxEvents, outcome \in ExitOutcomes : ProcessExit(c, outcome)

InitNotifier ==
    /\ plugin \in Plugins
    /\ cfgFile \in CfgFiles
    /\ NotifierFresh
    /\ EngineIdle
    /\ ManifestIdle
    /\ VerifyIdle
    /\ DecomposeIdle
    /\ effects = {}
    /\ HarnessIdle

SpecNotifier == InitNotifier /\ [][NextNotifier]_vars

\* ========================================================================
\* Properties of the notifier plugins
\* ========================================================================
\* the event types both plugins notify for whenever notifications are on
AlwaysNotified == {"permission.updated", "session.complete", "task.complete"}

\* C6: no call of the event hook ends rejected, whatever the event's type
\* and properties and however the executor answers; a call that waits for
\* its process resolves however the process ends; and whatever earlier
\* calls met, an event of a notified type with plain properties still has
\* its notification handed to the executor.
HookNeverRejects ==
    /\ \A c \in 1..Len(calls) : calls[c].pc # "rejected"
    /\ \A c \in 1..Len(calls) : calls[c].pc = "awaiting" =>
          \A outcome \in ExitOutcomes : ENABLED ProcessExit(c, outcome)
    /\ \A c \in 1..Len(calls) :
          (/\ cachedConfig.notification
           /\ calls[c].type \in AlwaysNotified
           /\ calls[c].props = "object") => calls[c].sent

\* a call whose handler threw has resolved, and a later event was notified
HandledAfterThrow ==
    \E c \in 1..Len(calls) : \E d \in (c + 1)..Len(calls) :
        /\ calls[c].caught
        /\ calls[c].pc = "resolved"
        /\ calls[d].sent
        /\ calls[d].pc = "resolved"

\* C7: once the configuration is loaded with notification false, no
\* notify-send command has been handed to the executor, whatever events
\* have been delivered.
NoNotifySendWhenDisabled ==
    (cachedConfig.loaded /\ ~cachedConfig.notification) =>
        spawned = 0 /\ \A c \in 1..Len(calls) : ~calls[c].sent

\* with notification false, a permission request and another event have
\* been delivered and the hook has returned for both
EventsDeliveredWhileDisabled ==
    /\ cachedConfig.loaded
    /\ ~cachedConfig.notification
    /\ Len(calls) >= 2
    /\ \E c \in 1..Len(calls) :
          calls[c].type = "permission.updated" /\ calls[c].props = "object"
    /\ \A c \in 1..Len(calls) : calls[c].pc = "resolved"

\* the event types a plugin has an entry for: the keys of eventMap, the
\* keys of eventHandlers
HandledTypes(p) ==
    IF p = "HyprNotifierPlugin"
    THEN {"permission.updated", "session.complete", "task.complete",
          "session.idle"}
    ELSE {"permission.updated", "session.idle", "session.updated",
          "session.complete", "task.complete", "session.error"}

\* C25: an event whose type the plugin does not handle is ignored: no
\* notify-send command is built for it.
UnhandledEventsIgnored ==
    \A c \in 1..Len(calls) :
        calls[c].type \notin HandledTypes(plugin) => ~calls[c].sent

\* the same, of the types that are no property name of a plain object
UnlistedEventsIgnored ==
    \A c \in 1..Len(calls) :
        calls[c].type \notin HandledTypes(plugin) \cup {"__proto__", "constructor"}
           => ~calls[c].sent

\* ---- the idle flag of HyprNotifierPlugin over a longer run ----
\* events delivered in a run that follows the idle flag
MaxIdleEvents == 4

\* the events of such a run: the three that mark activity, session.idle,
\* and one the plugin has no entry for
IdleRunTypes == AlwaysNotified \cup {"session.idle", "session.updated"}

IdleRunProps == {"object", "hostile"}

NextIdle ==
    \/ PluginInit
    \/ \E inst \in 1..MaxPlugins, type \in IdleRunTypes, props \in IdleRunProps :
          HookCallUpTo(MaxIdleEvents, inst, type, props, "throws")

InitIdle ==
    /\ plugin = "HyprNotifierPlugin"
    /\ cfgFile \in CfgFiles
    /\ NotifierFresh
    /\ EngineIdle
    /\ ManifestIdle
    /\ VerifyIdle
    /\ DecomposeIdle
    /\ effects = {}
    /\ HarnessIdle

SpecIdle == InitIdle /\ [][NextIdle]_vars

\* call c is a session.idle event, call c marks activity
IsIdle(c) == calls[c].type = "session.idle"

IsActivity(c) == calls[c].type \in AlwaysNotified

\* C29: between two consecutive activity events, or since the process
\* started, at most one session.idle event produces a notification,
\* through whichever plugin instance the events arrive.
OneIdleNotificationPerIdlePeriod ==
    \A c \in 1..Len(calls) : \A d \in (c + 1)..Len(calls) :
        (IsIdle(c) /\ calls[c].sent /\ IsIdle(d) /\ calls[d].sent) =>
            \E e \in (c + 1)..(d - 1) : IsActivity(e)

\* with two plugin instances: an idle event notified, the next one not,
\* and after an activity event an idle event notified again
SecondIdleSuppressed ==
    /\ Len(instances) = 2
    /\ Len(calls) = 4
    /\ IsIdle(1) /\ calls[1].sent
    /\ IsIdle(2) /\ ~calls[2].sent /\ calls[2].props = "object"
    /\ IsActivity(3)
    /\ IsIdle(4) /\ calls[4].sent

\* call d is the first session.idle event after call c
NextIdleAfter(c, d) ==
    /\ c < d
    /\ IsIdle(d)
    /\ \A e \in (c + 1)..(d - 1) : ~IsIdle(e)

\* C30: after an activity event has been handled with notifications
\* enabled, the next session.idle event produces a notification again.
IdleNotifiedAgainAfterActivity ==
    \A c \in 1..Len(calls) : \A d \in 1..Len(calls) :
        (cachedConfig.notification /\ IsActivity(c) /\ NextIdleAfter(c, d)) =>
            calls[d].sent

\* the same, of a session.idle event whose properties can be rendered
RenderableIdleNotifiedAgain ==
    \A c \in 1..Len(calls) : \A d \in 1..Len(calls) :
        (/\ cachedConfig.notification
         /\ IsActivity(c)
         /\ NextIdleAfter(c, d)
         /\ calls[d].props = "object") => calls[d].sent

\* the step is a call of the event hook with an event handleEvent returns
\* for at once: notifications are disabled, or eventMap has no entry for
\* the event's type
IgnoredEventStep ==
    /\ Len(calls') = Len(calls) + 1
    /\ \/ ~cachedConfig.notification
       \/ calls'[Len(calls')].type \notin HandledTypes(plugin)

\* C32: an event that produces no notification because notifications are
\* disabled or its type is unknown leaves the idle flag as it was.
IgnoredEventsKeepIdleFlag ==
    [][IgnoredEventStep => idleNotificationSent' = idleNotificationSent]_vars

\* an idle event notified, an event of unknown type ignored, and the next
\* idle event still suppressed
UnknownEventBetweenIdles ==
    /\ Len(calls) = 3
    /\ IsIdle(1) /\ calls[1].sent
    /\ calls[2].type = "session.updated" /\ ~calls[2].sent
    /\ IsIdle(3) /\ ~calls[3].sent /\ calls[3].props = "object"
    /\ idleNotificationSent

\* ---- session.idle events dispatched together (HyprNotifierPlugin) ----
\* events delivered in a run that follows the turns of the event loop
MaxBurstEvents == 4

\* The event loop turns with no process exit to deliver: the calls with
\* only promise continuations left (the hook's await of a handleEvent that
\* returned or threw) have run to their end.
Turn ==
    /\ plugin \in Plugins
    /\ tick # Turned
    /\ tick' = Turned
    /\ UNCHANGED <<plugin, cfgFile, cachedConfig, configLoadAttempted,
                   initialized, idleNotificationSent, instances, calls,
                   spawned, logs, initLogs, loads>>
    /\ UNCHANGED notNotifier

NextBurst ==
    \/ PluginInit
    \/ \E inst \in 1..MaxPlugins, type \in IdleRunTypes, props \in IdleRunProps,
          answer \in ExecutorAnswers :
          HookCallUpTo(MaxBurstEvents, inst, type, props, answer)
    \/ \E c \in 1..MaxBurstEvents, outcome \in ExitOutcomes :
          ProcessExit(c, outcome)
    \/ Turn

\* the configuration file of such a run: absent (notifications enabled by
\* default) or with notification false
BurstFiles == {"missing", "disabled"}

InitBurst ==
    /\ plugin = "HyprNotifierPlugin"
    /\ cfgFile \in BurstFiles
    /\ NotifierFresh
    /\ EngineIdle
    /\ ManifestIdle
    /\ VerifyIdle
    /\ DecomposeIdle
    /\ effects = {}
    /\ HarnessIdle

SpecBurst == InitBurst /\ [][NextBurst]_vars

\* the calls dispatched since the event loop last turned: each of them
\* began before any other of them finished
BurstCalls == (tick.start + 1)..Len(calls)

\* several session.idle events and nothing else dispatched together, with
\* notifications enabled and no idle notification outstanding
IdleBurst ==
    /\ cachedConfig.notification
    /\ ~tick.idle
    /\ Cardinality(BurstCalls) >= 2
    /\ \A c \in BurstCalls : IsIdle(c)

BurstSent == {c \in BurstCalls : calls[c].sent}

\* C31: when several session.idle events are dispatched together, with no
\* activity event among them, exactly one notify-send command is handed
\* to the executor.
IdleBurstSpawnsExactlyOne == IdleBurst => Cardinality(BurstSent) = 1

\* of the same events, never more than one
IdleBurstSpawnsAtMostOne == IdleBurst => Cardinality(BurstSent) <= 1

\* exactly one, when the body of the first event can be built
RenderableIdleBurstSpawnsOne ==
    (IdleBurst /\ calls[tick.start + 1].props = "object") =>
        BurstSent = {tick.start + 1}

\* three idle events dispatched after an earlier idle period has ended,
\* while the process of the first is still running
IdleBurstWhileProcessRuns ==
    /\ IdleBurst
    /\ tick.start >= 1
    /\ Cardinality(BurstCalls) >= 3
    /\ calls[tick.start + 1].pc = "awaiting"
    /\ BurstSent = {tick.start + 1}

\* ---- the configuration file changes while the process runs ----
\* The user rewrites, creates or removes opencode-hyprland.json.
EditFile(file) ==
    /\ plugin \in Plugins
    /\ file # cfgFile
    /\ cfgFile' = file
    /\ UNCHANGED <<plugin, cachedConfig, configLoadAttempted, initialized,
                   idleNotificationSent, instances, calls, spawned, logs,
                   initLogs, loads, tick>>
    /\ UNCHANGED notNotifier

NextReload ==
    \/ PluginInit
    \/ \E file \in CfgFiles : EditFile(file)
    \/ \E inst \in 1..MaxPlugins, type \in AlwaysNotified :
          HookCall(inst, type, "object", "throws")

InitReload ==
    /\ plugin \in Plugins
    /\ cfgFile \in CfgFiles
    /\ NotifierFresh
    /\ EngineIdle
    /\ ManifestIdle
    /\ VerifyIdle
    /\ DecomposeIdle
    /\ effects = {}
    /\ HarnessIdle

SpecReload == InitReload /\ [][NextReload]_vars

\* C33: the configuration is loaded at most once per process: loadConfig
\* goes to the file system on the first instantiation only, every later
\* instantiation gets the configuration the first one got, and events
\* are handled by that configuration however the file has changed since.
ConfigLoadedOnce ==
    /\ loads = (IF Len(instances) > 0 THEN 1 ELSE 0)
    /\ \A i \in 1..Len(instances) :
          instances[i] = instances[1] /\ cachedConfig = instances[1]
    /\ \A c \in 1..Len(calls) : calls[c].sent = instances[1].notification

\* the file said notification false at the first instantiation and says
\* true now; a second instantiation and an event through it: not notified
FileChangeNotObserved ==
    /\ Len(instances) = 2
    /\ ~instances[2].notification
    /\ cfgFile = "enabled"
    /\ ConfigOf(cfgFile) # instances[2]
    /\ Len(calls) = 2
    /\ ~calls[2].sent

\* C34: the initialization message is logged on the first instantiation
\* of a process and only then: once there is an instance it has been
\* logged exactly once.
InitMessageOnFirstInstantiationOnly ==
    initLogs = (IF Len(instances) > 0 THEN 1 ELSE 0)

\* the same, of HyprNotifierPlugin
HyprNotifierInitMessageOnce ==
    plugin = "HyprNotifierPlugin" => InitMessageOnFirstInstantiationOnly

\* HyprlandNotifierPlugin does not log it again either
InitMessageNeverRepeated == initLogs <= 1

\* ========================================================================
\* The Store on its own: Save then Get (src/openspec/store.go)
\* ========================================================================
\* entities saved in one run
MaxRows == 2

\* the largest Unix second of a saved time
MaxUnix == 1

RowIds == {"a", "b"}

\* Go's zero time.Time (year 1); its Unix second is below every other
ZeroTime == [unix |-> -1, nanos |-> 0]

\* time.Now() values: a Unix second and what is left of the nanoseconds
Times == {ZeroTime} \cup [unix : 0..MaxUnix, nanos : 0..1]

\* a Go slice: nil, empty or holding an element
NilList == [null |-> TRUE, items |-> <<>>]

JsonLists == {NilList, [null |-> FALSE, items |-> <<>>],
              [null |-> FALSE, items |-> <<"x">>]}

\* json.Marshal of a slice
JsonMarshal(l) ==
    IF l.null THEN "null"
    ELSE IF l.items = <<>> THEN "[]" ELSE "[\"x\"]"

\* json.Unmarshal into a zero slice: null leaves it nil
JsonUnmarshal(text) ==
    CASE text = "null" -> NilList
      [] text = "[]" -> [null |-> FALSE, items |-> <<>>]
      [] OTHER -> [null |-> FALSE, items |-> <<"x">>]

\* the entities the run may save
Intents ==
    [kind : {"intent"}, ID : RowIds, Constraints : JsonLists, CreatedAt : Times]

Specs ==
    [kind : {"spec"}, ID : RowIds, Order : JsonLists, CreatedAt : Times]

Beads ==
    [kind : {"bead"}, ID : RowIds, Requires : JsonLists,
     Status : {BeadSpecified, BeadVerified}, CreatedAt : Times]

Verifications ==
    [kind : {"verification"}, BeadID : RowIds, Passed : BOOLEAN,
     ContractChecks : JsonLists, Duration : 0..1, Timestamp : Times]

Entities == Intents \cup Specs \cup Beads \cup Verifications

\* the INSERT of each Save: the row's columns
IntentRow(e) ==
    [id |-> e.ID, constraints |-> JsonMarshal(e.Constraints),
     created_at |-> e.CreatedAt.unix]

SpecRow(e) ==
    [id |-> e.ID, bead_order |-> JsonMarshal(e.Order),
     created_at |-> e.CreatedAt.unix]

BeadRow(e) ==
    [id |-> e.ID, requires |-> JsonMarshal(e.Requires), status |-> e.Status,
     created_at |-> e.CreatedAt.unix]

\* SaveVerification: id is "<bead id>-<Unix second>"
VerificationRow(e) ==
    [id |-> <<e.BeadID, e.Timestamp.unix>>, bead_id |-> e.BeadID,
     passed |-> IF e.Passed THEN 1 ELSE 0,
     contract_checks |-> JsonMarshal(e.ContractChecks),
     duration_ns |-> e.Duration, timestamp |-> e.Timestamp.unix]

\* the Scan of each Get: created_at, duration_ns and timestamp are scanned
\* into locals that are never assigned to the entity
ScanIntent(row) ==
    [kind |-> "intent", ID |-> row.id,
     Constraints |-> JsonUnmarshal(row.constraints), CreatedAt |-> ZeroTime]

ScanSpec(row) ==
    [kind |-> "spec", ID |-> row.id, Order |-> JsonUnmarshal(row.bead_order),
     CreatedAt |-> ZeroTime]

ScanBead(row) ==
    [kind |-> "bead", ID |-> row.id, Requires |-> JsonUnmarshal(row.requires),
     Status |-> row.status, CreatedAt |-> ZeroTime]

ScanVerification(row) ==
    [kind |-> "verification", BeadID |-> row.bead_id, Passed |-> (row.passed = 1),
     ContractChecks |-> JsonUnmarshal(row.contract_checks), Duration |-> 0,
     Timestamp |-> ZeroTime]

TableOf(kind) ==
    CASE kind = "intent" -> "intents"
      [] kind = "spec" -> "specs"
      [] kind = "bead" -> "beads"
      [] kind = "verification" -> "verifications"

RowOf(e) ==
    CASE e.kind = "intent" -> IntentRow(e)
      [] e.kind = "spec" -> SpecRow(e)
      [] e.kind = "bead" -> BeadRow(e)
      [] e.kind = "verification" -> VerificationRow(e)

ScanOf(kind, row) ==
    CASE kind = "intent" -> ScanIntent(row)
      [] kind = "spec" -> ScanSpec(row)
      [] kind = "bead" -> ScanBead(row)
      [] kind = "verification" -> ScanVerification(row)

\* the id a Get looks an entity up by
LookupId(e) == IF e.kind = "verification" THEN e.BeadID ELSE e.ID

\* the rows a Get's WHERE clause matches; GetVerification takes the latest
Matching(kind, id) ==
    IF kind = "verification"
    THEN {r \in sdb.verifications :
             /\ r.bead_id = id
             /\ \A o \in sdb.verifications :
                    o.bead_id = id => o.timestamp <= r.timestamp}
    ELSE {r \in sdb[TableOf(kind)] : r.id = id}

\* SaveIntent, SaveSpec, SaveBead, SaveVerification: one INSERT; a row with
\* the same primary key makes it fail and Save return the error
StoreSave(e) ==
    /\ spc = "run"
    /\ Cardinality(ssaved) < MaxRows
    /\ LET t == TableOf(e.kind)
           row == RowOf(e)
       IN IF \E r \in sdb[t] : r.id = row.id
          THEN UNCHANGED <<sdb, ssaved>>
          ELSE /\ sdb' = [sdb EXCEPT ![t] = @ \cup {row}]
               /\ ssaved' = ssaved \cup {e}
    /\ UNCHANGED <<spc, sloaded>>
    /\ UNCHANGED notRoundTrip

\* GetIntent, GetSpec, GetBead, GetVerification: sql.ErrNoRows when no row
\* matches
StoreGet(kind, id) ==
    /\ spc = "run"
    /\ LET rows == Matching(kind, id)
       IN IF rows = {}
          THEN sloaded' = [kind |-> kind, found |-> FALSE,
                           value |-> [kind |-> "none"]]
          ELSE \E r \in rows :
                  sloaded' = [kind |-> kind, found |-> TRUE,
                              value |-> ScanOf(kind, r)]
    /\ UNCHANGED <<spc, sdb, ssaved>>
    /\ UNCHANGED notRoundTrip

NextRoundTrip ==
    \/ \E e \in Entities : StoreSave(e)
    \/ \E kind \in {"intent", "spec", "bead", "verification"} :
          \E id \in RowIds : StoreGet(kind, id)

InitRoundTrip ==
    /\ spc = "run"
    /\ RoundTripFresh
    /\ EngineIdle
    /\ ManifestIdle
    /\ VerifyIdle
    /\ DecomposeIdle
    /\ NotifierIdle
    /\ WorkspaceIdle
    /\ PoolIdle
    /\ RankIdle
    /\ ToolsIdle
    /\ effects = {}

SpecRoundTrip == InitRoundTrip /\ [][NextRoundTrip]_vars

\* the saved entities a Get by this id is to return: the one saved under
\* the id or, for a verification, the latest one of the bead
SavedUnder(kind, id) ==
    {e \in ssaved :
        /\ e.kind = kind
        /\ LookupId(e) = id
        /\ kind = "verification" =>
               \A o \in ssaved :
                   (o.kind = kind /\ o.BeadID = id) =>
                       o.Timestamp.unix <= e.Timestamp.unix}

\* C15: what a Get returns equals, in every field, the entity that was
\* saved under its id, for intents, specs, beads and verifications.
StoreRoundTrip ==
    [][(ssaved' = ssaved /\ sloaded'.found) =>
          sloaded'.value \in SavedUnder(sloaded'.kind, LookupId(sloaded'.value))]_vars

\* what the round trip does keep: every field but the times and the duration
WithoutTimes(e) ==
    CASE e.kind = "verification" ->
             [e EXCEPT !.Duration = 0, !.Timestamp = ZeroTime]
      [] OTHER -> [e EXCEPT !.CreatedAt = ZeroTime]

StoreRoundTripButTimes ==
    [][(ssaved' = ssaved /\ sloaded'.found) =>
          \E e \in SavedUnder(sloaded'.kind, LookupId(sloaded'.value)) :
              sloaded'.value = WithoutTimes(e)]_vars

\* ========================================================================
\* verifyOne and its workspace (PLANNING_PLUGIN_DESIGN.md section 5, and the
\* overview's verifyOne, src/unnamed/part_000)
\* ========================================================================
\* "design": mkdir inside the try, stages under runWithTimeout, fs.rm in the
\* finally.  "overview": createWorkspace before the try, removeWorkspace in
\* the finally.
VerifyOneVariants == {"design", "overview"}

\* the steps of verifyOne's try block after the workspace is made
SetupSteps == <<"copy", "apply", "write">>

StageSteps == <<"typecheck", "lint", "unitTests", "specTests">>

\* the step that follows a step that returned
StepAfter(pc) ==
    CASE pc = "create" -> "copy"
      [] pc = "copy" -> "apply"
      [] pc = "apply" -> "write"
      [] pc = "write" -> "typecheck"
      [] pc = "typecheck" -> "lint"
      [] pc = "lint" -> "unitTests"
      [] pc = "unitTests" -> "specTests"
      [] pc = "specTests" -> "return"

\* what a stage may answer: runWithTimeout turns a timeout into a failed
\* check; the overview's stages have no timeout
StageAnswers(variant) ==
    IF variant = "design" THEN {"passed", "failed", "timeout"}
    ELSE {"passed", "failed"}

ThrowSkipsFinally(pc) == "done"

\* a throw inside the try block runs the finally block
ThrowInTry(pc) == "cleanup"

\* making the workspace: the design's mkdir is inside the try block, the
\* overview's createWorkspace is before it
CreateWorkspace ==
    /\ wpc = "create"
    /\ \/ /\ workspace' = "exists"
          /\ wpc' = StepAfter(wpc)
          /\ wout' = wout
       \/ /\ workspace' = workspace
          /\ IF wvariant = "design"
             THEN wpc' = ThrowInTry(wpc) /\ wout' = "throwing"
             ELSE wpc' = "done" /\ wout' = "rejected"
    /\ UNCHANGED <<wvariant, wchecks>>
    /\ UNCHANGED notWorkspace

\* copyCodebase, applying the attempt's files, writing the spec tests
SetupStep ==
    /\ \E i \in 1..Len(SetupSteps) : wpc = SetupSteps[i]
    /\ \/ wpc' = StepAfter(wpc) /\ wout' = wout
       \/ wpc' = ThrowInTry(wpc) /\ wout' = "throwing"
    /\ UNCHANGED <<wvariant, workspace, wchecks>>
    /\ UNCHANGED notWorkspace

\* typecheck, lint, unit tests, spec tests: all four run, whatever the
\* earlier ones answered
StageStep ==
    /\ \E i \in 1..Len(StageSteps) : wpc = StageSteps[i]
    /\ \/ \E answer \in StageAnswers(wvariant) :
             /\ wchecks' = [wchecks EXCEPT ![wpc] = answer]
             /\ wpc' = StepAfter(wpc)
             /\ wout' = wout
       \/ /\ wpc' = ThrowInTry(wpc)
          /\ wout' = "throwing"
          /\ wchecks' = wchecks
    /\ UNCHANGED <<wvariant, workspace>>
    /\ UNCHANGED notWorkspace

\* return { attemptId, passed, checks, ... }: the finally block runs next
ReturnResult ==
    /\ wpc = "return"
    /\ wpc' = "cleanup"
    /\ wout' = "returning"
    /\ UNCHANGED <<wvariant, workspace, wchecks>>
    /\ UNCHANGED notWorkspace

\* finally: fs.rm(workspacePath, { recursive, force }) / removeWorkspace.
\* A removal that throws replaces the try block's outcome.
Cleanup ==
    /\ wpc = "cleanup"
    /\ wpc' = "done"
    /\ \/ /\ workspace' = IF workspace = "exists" THEN "removed" ELSE workspace
          /\ wout' = IF wout = "returning" THEN "resolved" ELSE "rejected"
       \/ /\ workspace = "exists"
          /\ workspace' = workspace
          /\ wout' = "cleanup_failed"
    /\ UNCHANGED <<wvariant, wchecks>>
    /\ UNCHANGED notWorkspace

NextVerifyOne ==
    \/ CreateWorkspace
    \/ SetupStep
    \/ StageStep
    \/ ReturnResult
    \/ Cleanup

InitVerifyOne ==
    /\ wpc = "create"
    /\ wvariant \in VerifyOneVariants
    /\ WorkspaceFresh
    /\ EngineIdle
    /\ ManifestIdle
    /\ VerifyIdle
    /\ DecomposeIdle
    /\ NotifierIdle
    /\ RoundTripIdle
    /\ PoolIdle
    /\ RankIdle
    /\ ToolsIdle
    /\ effects = {}

SpecVerifyOne == InitVerifyOne /\ [][NextVerifyOne]_vars

MaxAttempts == 11

\* const CONCURRENCY = 10; default_config(): concurrency: 10
CONCURRENCY == 10

\* "semaphore": every attempt's promise acquires a permit, runs verifyOne
\* and releases in finally.  "chunks": list.sized_chunk(concurrency), and
\* per chunk a task per attempt, all awaited before the next chunk.
VerifyAllVariants == {"semaphore", "chunks"}

Running == Cardinality({i \in 1..Len(hstate) : hstate[i] = "running"})

PermitAlwaysFree(p) == TRUE

\* semaphore.acquire() resolves when a permit is left
PermitFree(p) == p > 0

\* release() in the finally block: the permit comes back however verifyOne
\* settled
Released(outcome) == 1

\* the chunk an attempt falls in
ChunkOf(i) == (i - 1) \div CONCURRENCY

\* semaphore.acquire().then(...): verifyOne starts
Acquire(i) ==
    /\ hvariant = "semaphore"
    /\ hstate[i] = "queued"
    /\ PermitFree(hpermits)
    /\ hstate' = [hstate EXCEPT ![i] = "running"]
    /\ hpermits' = hpermits - 1
    /\ UNCHANGED hvariant
    /\ UNCHANGED notPool

\* verifyOne settles and the finally block releases the permit
SettleAndRelease(i) ==
    /\ hvariant = "semaphore"
    /\ hstate[i] = "running"
    /\ \E outcome \in {"resolved", "rejected"} :
          hpermits' = hpermits + Released(outcome)
    /\ hstate' = [hstate EXCEPT ![i] = "done"]
    /\ UNCHANGED hvariant
    /\ UNCHANGED notPool

\* task.async for the next attempt of the current chunk: the chunk's tasks
\* are spawned in list order, once every earlier chunk has been awaited
SpawnTask(i) ==
    /\ hvariant = "chunks"
    /\ hstate[i] = "queued"
    /\ \A j \in 1..(i - 1) : hstate[j] # "queued"
    /\ \A j \in 1..(i - 1) : ChunkOf(j) < ChunkOf(i) => hstate[j] = "done"
    /\ hstate' = [hstate EXCEPT ![i] = "running"]
    /\ UNCHANGED <<hvariant, hpermits>>
    /\ UNCHANGED notPool

\* verify_one returns in its task
TaskDone(i) ==
    /\ hvariant = "chunks"
    /\ hstate[i] = "running"
    /\ hstate' = [hstate EXCEPT ![i] = "done"]
    /\ UNCHANGED <<hvariant, hpermits>>
    /\ UNCHANGED notPool

NextVerifyAll ==
    \/ \E i \in 1..Len(hstate) : Acquire(i)
    \/ \E i \in 1..Len(hstate) : SettleAndRelease(i)
    \/ \E i \in 1..Len(hstate) : SpawnTask(i)
    \/ \E i \in 1..Len(hstate) : TaskDone(i)

InitVerifyAll ==
    /\ hvariant \in VerifyAllVariants
    /\ \E n \in 0..MaxAttempts : hstate = [i \in 1..n |-> "queued"]
    /\ hpermits = CONCURRENCY
    /\ EngineIdle
    /\ ManifestIdle
    /\ VerifyIdle
    /\ DecomposeIdle
    /\ NotifierIdle
    /\ RoundTripIdle
    /\ WorkspaceIdle
    /\ RankIdle
    /\ ToolsIdle
    /\ effects = {}

SpecVerifyAll == InitVerifyAll /\ [][NextVerifyAll]_vars

\* the work verifyAll has left: two steps for a queued attempt, one for a
\* running one
WorkLeft(st) ==
    2 * Cardinality({i \in 1..Len(st) : st[i] = "queued"})
    + Cardinality({i \in 1..Len(st) : st[i] = "running"})

MaxRanked == 3

\* the largest overall score
MaxScore == 1

RankVariants == {"rank", "rankSurvivors"}

\* JavaScript's NaN: assertionsPassed / assertionsTotal with no assertions
NaN == -1

\* the stage results of the attempts ranked: all stages passed, one failed,
\* or all failed
StageResults ==
    {st \in [Stages -> BOOLEAN] :
        Cardinality({c \in Stages : ~st[c]}) \in {0, 1, 4}}

\* a verification result with its attempt's overall score
RankInputs(variant) ==
    [stages : StageResults,
     score : IF variant = "rank" THEN 0..MaxScore ELSE {NaN} \cup 0..MaxScore]

\* the results of one verifyAll: one per attempt, the attempt's id being
\* its place in the list
RankLists(variant) ==
    UNION {{[i \in 1..n |-> [attemptId |-> i, stages |-> f[i].stages,
                             score |-> f[i].score]] :
               f \in [1..n -> RankInputs(variant)]} : n \in 0..MaxRanked}

\* list.sort / Array.prototype.sort by overall score, descending; both are
\* stable: x goes behind every element that does not score below it
RECURSIVE InsertDescending(_, _)
InsertDescending(x, sorted) ==
    IF sorted = <<>> THEN <<x>>
    ELSE IF Head(sorted).score >= x.score
         THEN <<Head(sorted)>> \o InsertDescending(x, Tail(sorted))
         ELSE <<x>> \o sorted

RECURSIVE SortDescending(_)
SortDescending(l) ==
    IF l = <<>> THEN <<>>
    ELSE InsertDescending(l[Len(l)], SortDescending(SubSeq(l, 1, Len(l) - 1)))

Reorderings(l) ==
    {[i \in 1..Len(l) |-> l[f[i]]] :
        f \in {g \in [1..Len(l) -> 1..Len(l)] :
                  \A a, b \in 1..Len(l) : g[a] = g[b] => a = b}}

\* what the sort may return: with a NaN score the comparator b - a is not
\* consistent and the order is up to the engine
SortOutcomes(l) ==
    IF \E i \in 1..Len(l) : l[i].score = NaN
    THEN Reorderings(l) ELSE {SortDescending(l)}

RankUnset(i) == 0

\* index_map(fn(s, i) { Survivor(..s, rank: i + 1) }) and
\* survivors.forEach((s, i) => s.rank = i + 1), for the i-th of the list
RankOf(i) == i

\* the Survivors of a sorted list
WithRanks(l) ==
    [i \in 1..Len(l) |->
        [attemptId |-> l[i].attemptId, score |-> l[i].score, rank |-> RankOf(i)]]

\* results.filter(r => r.passed) in manifest, phase 6
PassedFilter(stages) == VerifyOneResult(stages).passed

\* rank.rank: filter(survived), score, sort, index_map
RankCall ==
    /\ kpc = "start"
    /\ kvariant = "rank"
    /\ kout' = WithRanks(SortDescending(
                   SelectSeq(kin, LAMBDA v : Survived(v.stages))))
    /\ kpc' = "done"
    /\ UNCHANGED <<kvariant, kin>>
    /\ UNCHANGED notRank

\* manifest phase 6: passed = results.filter(r => r.passed); none passed:
\* no survivor is made; else rankSurvivors(passed, attempts)
RankSurvivorsCall ==
    /\ kpc = "start"
    /\ kvariant = "rankSurvivors"
    /\ LET passed == SelectSeq(kin, LAMBDA v : PassedFilter(v.stages))
       IN IF passed = <<>>
          THEN kout' = <<>>
          ELSE \E sorted \in SortOutcomes(passed) : kout' = WithRanks(sorted)
    /\ kpc' = "done"
    /\ UNCHANGED <<kvariant, kin>>
    /\ UNCHANGED notRank

NextRank == RankCall \/ RankSurvivorsCall

InitRank ==
    /\ kpc = "start"
    /\ kvariant \in RankVariants
    /\ kin \in RankLists(kvariant)
    /\ RankFresh
    /\ EngineIdle
    /\ ManifestIdle
    /\ VerifyIdle
    /\ DecomposeIdle
    /\ NotifierIdle
    /\ RoundTripIdle
    /\ WorkspaceIdle
    /\ PoolIdle
    /\ ToolsIdle
    /\ effects = {}

SpecRank == InitRank /\ [][NextRank]_vars

\* C18: every Survivor the ranking returns belongs to an attempt whose
\* verification passed every stage.
SurvivorsPassedVerification ==
    kpc = "done" =>
        \A k \in 1..Len(kout) :
            \A c \in Stages : kin[kout[k].attemptId].stages[c]

\* the ranking has returned survivors and left out an attempt that failed
\* one stage only
FailedAttemptLeftOut ==
    /\ kpc = "done"
    /\ kout # <<>>
    /\ \E i \in 1..Len(kin) :
          /\ Cardinality({c \in Stages : ~kin[i].stages[c]}) = 1
          /\ \A k \in 1..Len(kout) : kout[k].attemptId # i

\* C19: the ranks of the Survivors of one ranking are 1..K without
\* duplicates, K being the number of Survivors.
RanksArePermutation ==
    kpc = "done" =>
        /\ {kout[k].rank : k \in 1..Len(kout)} = 1..Len(kout)
        /\ \A a, b \in 1..Len(kout) : kout[a].rank = kout[b].rank => a = b

\* survivors with equal scores, and one with a NaN score, have been ranked
TiedSurvivorsRanked ==
    /\ kpc = "done"
    /\ Len(kout) = MaxRanked
    /\ kout[1].score = kout[2].score
    /\ kout[3].score = NaN

\* ========================================================================
\* executeCommand: the plugin's own (src/src/hypr-notifier.ts 86-94) and the
\* shell wrapper's (the file's second part, 342-376)
\* ========================================================================
\* the largest exit code a command ends with
MaxCode == 2

ShellVariants == {"plugin", "wrapper"}

\* stdout and stderr of ShellExecutorOptions
OutputModes == {"pipe", "inherit", "ignore"}

\* one call: the options passed, whether Bun.spawn throws, and the exit
\* code the command ends with when it starts
ShellCalls ==
    [stdout : OutputModes, stderr : OutputModes,
     spawn : {"throws", "starts"}, code : 0..MaxCode]

\* the catch block: { exitCode: null }
SpawnFailed == [exitCode |-> Null]

\* Bun.spawn: it throws, caught by the catch block, or the process starts
Spawn ==
    /\ xpc = "call"
    /\ IF xcall.spawn = "throws"
       THEN /\ xresult' = SpawnFailed
            /\ xpc' = "returned"
            /\ xproc' = xproc
       ELSE /\ xproc' = "running"
            /\ xpc' = "spawned"
            /\ xresult' = xresult
    /\ UNCHANGED <<xvariant, xcall>>
    /\ UNCHANGED notShell

\* the command ends: its pipes reach their end
OutputEnds ==
    /\ xproc = "running"
    /\ xproc' = "ended"
    /\ UNCHANGED <<xpc, xvariant, xcall, xresult>>
    /\ UNCHANGED notShell

\* the runtime records the exit: exitCode holds the code, exited resolves
ExitRecorded ==
    /\ xproc = "ended"
    /\ xproc' = "exited"
    /\ UNCHANGED <<xpc, xvariant, xcall, xresult>>
    /\ UNCHANGED notShell

\* subprocess.exitCode: null until the exit is recorded
exitCode(proc, code) == IF proc = "exited" THEN <<code>> ELSE Null

\* the plugin's executeCommand: await proc.exited, then proc.exitCode
AwaitExited ==
    /\ xpc = "spawned"
    /\ xvariant = "plugin"
    /\ xproc = "exited"
    /\ xresult' = [exitCode |-> exitCode(xproc, xcall.code)]
    /\ xpc' = "returned"
    /\ UNCHANGED <<xvariant, xcall, xproc>>
    /\ UNCHANGED notShell

\* result.stdout and result.stderr are streams only for "pipe"; the
\* wrapper reads each stream it has to its end
OutputRead(call, proc) ==
    ("pipe" \in {call.stdout, call.stderr}) => proc \in {"ended", "exited"}

\* the wrapper's executeCommand: the streams are read, then result.exitCode
\* is taken as it is; exited is not awaited
ReadExitCode ==
    /\ xpc = "spawned"
    /\ xvariant = "wrapper"
    /\ OutputRead(xcall, xproc)
    /\ xresult' = [exitCode |-> exitCode(xproc, xcall.code)]
    /\ xpc' = "returned"
    /\ UNCHANGED <<xvariant, xcall, xproc>>
    /\ UNCHANGED notShell

NextShell ==
    \/ Spawn
    \/ OutputEnds
    \/ ExitRecorded
    \/ AwaitExited
    \/ ReadExitCode

InitShell ==
    /\ xpc = "call"
    /\ xvariant \in ShellVariants
    /\ xcall \in ShellCalls
    /\ ShellFresh
    /\ ConfigIdle
    /\ LoggerIdle
    /\ EngineIdle
    /\ ManifestIdle
    /\ VerifyIdle
    /\ DecomposeIdle
    /\ NotifierIdle
    /\ RoundTripIdle
    /\ WorkspaceIdle
    /\ PoolIdle
    /\ RankIdle
    /\ effects = {}

SpecShell == InitShell /\ [][NextShell]_vars

\* C24: a null exit code means the command could not be spawned and
\* nothing else: a spawn failure yields null, never a number, and a command
\* that ran and failed yields its non-zero code, never null.
NullExitCodeMeansSpawnFailure ==
    xpc = "returned" =>
       /\ xcall.spawn = "throws" => xresult.exitCode = Null
       /\ (xcall.spawn = "starts" /\ xcall.code # 0) =>
             xresult.exitCode = <<xcall.code>>

\* the same, of the plugin's own executeCommand only
PluginExitCodeMeansSpawnFailure ==
    (xvariant = "plugin") => NullExitCodeMeansSpawnFailure

\* ========================================================================
\* loadConfig: the plugin's (src/src/hypr-notifier.ts 100-158) and
\* validateAndMergeConfig with its loadConfig (src/unnamed/part_002 141-248)
\* ========================================================================
ConfigVariants == {"plugin", "merge"}

\* A JSON value as the code tests it: its typeof and its content.
Absent == [t |-> "undefined", v |-> ""]

JsonNull == [t |-> "object", v |-> "null"]

Bool(b) == [t |-> "boolean", v |-> b]

Num(n) == [t |-> "number", v |-> n]

Str(x) == [t |-> "string", v |-> x]

\* the keys read in an urgency, messages, icons or category object: the
\* plugin's third key is "idle", the other module's "error"; that module
\* also reads "complete"
FileKeys == {"permission", "session", "third", "complete"}

ResultKeys == {"permission", "session", "third"}

Groups == {"urgency", "messages", "icons", "category"}

NoKeys == [k \in FileKeys |-> Absent]

\* a value that is no object, and an object holding the keys
NotAnObject(val) == [t |-> val.t, v |-> val.v, keys |-> NoKeys]

ObjectOf(keys) == [t |-> "object", v |-> "keys", keys |-> keys]

\* what a file may say for an urgency, a text, and the top-level fields
UrgencyValues == {Absent, Str("low"), Str("urgent")}

TextValues == {Absent, Str("mine"), Num("7")}

UrgencyGroups ==
    {NotAnObject(Absent), NotAnObject(JsonNull)} \cup
    {ObjectOf(keys) : keys \in [FileKeys -> UrgencyValues]}

MessageGroups ==
    {NotAnObject(Absent), NotAnObject(Str("mine"))} \cup
    {ObjectOf([permission |-> a, third |-> a, session |-> b, complete |-> c]) :
        a \in TextValues, b \in TextValues, c \in TextValues}

IconGroups ==
    {NotAnObject(Absent), ObjectOf([k \in FileKeys |-> Str("mine")])}

CategoryGroups ==
    {NotAnObject(Absent), ObjectOf([k \in FileKeys |-> Num("7")])}

\* the parsed file when it is an object
ConfigObjects ==
    [state : {"parsed"}, t : {"object"}, v : {"keys"},
     notification : {Absent, Bool("false"), Str("no")},
     timeout : {Num("3000"), Str("3000")},
     transient : {Absent, Bool("true")},
     urgency : UrgencyGroups, messages : MessageGroups,
     icons : IconGroups, category : CategoryGroups]

\* a file that gives no object: it is missing, cannot be read, is no JSON,
\* or is the JSON of null, of a number or of a string
NoObject(state, val) ==
    [state |-> state, t |-> val.t, v |-> val.v,
     notification |-> Absent, timeout |-> Absent, transient |-> Absent,
     urgency |-> NotAnObject(Absent), messages |-> NotAnObject(Absent),
     icons |-> NotAnObject(Absent), category |-> NotAnObject(Absent)]

ConfigFileStates ==
    {NoObject("missing", Absent), NoObject("unreadable", Absent),
     NoObject("invalid", Absent), NoObject("parsed", JsonNull),
     NoObject("parsed", Num("7")), NoObject("parsed", Str("mine"))}
    \cup ConfigObjects

\* DEFAULT_CONFIG of either module (the second module's messages without
\* their leading symbol)
DefaultFields(variant) ==
    [notification |-> Bool("true"),
     timeout |-> Num("15000"),
     transient |-> Bool("false"),
     icons |-> [permission |-> Str("dialog-password"),
                session |-> Str("emblem-ok-symbolic"),
                third |-> IF variant = "plugin" THEN Str("dialog-information")
                          ELSE Str("dialog-error-symbolic")],
     urgency |-> [permission |-> Str("critical"),
                  session |-> Str("normal"),
                  third |-> IF variant = "plugin" THEN Str("normal")
                            ELSE Str("critical")],
     messages |-> [permission |-> Str("OpenCode Needs Your Attention"),
                   session |-> Str("OpenCode Session Idle"),
                   third |-> IF variant = "plugin"
                             THEN Str("OpenCode Waiting for Input")
                             ELSE Str("OpenCode Error")],
     category |-> [permission |-> Str("im.received"),
                   session |-> Str("im.received"),
                   third |-> IF variant = "plugin" THEN Str("im.received")
                             ELSE Str("im.error")]]

isValidUrgencyAnyString(val) == val.t = "string"

isValidUrgency(val) == val = Str("low") \/ val = Str("normal") \/ val = Str("critical")

isString(val) == val.t = "string"

getConfigProperty(obj, key) ==
    IF obj.t # "object" \/ obj.v = "null" THEN Absent ELSE obj.keys[key]

\* the plugin's loadConfig, the object it freezes: one conditional a field
MergePlugin(file) ==
    LET D == DefaultFields("plugin")
        Urgency(k) == LET val == getConfigProperty(file.urgency, k)
                      IN IF isValidUrgency(val) THEN val ELSE D.urgency[k]
        Text(g, k) == LET val == getConfigProperty(file[g], k)
                      IN IF isString(val) THEN val ELSE D[g][k]
    IN [notification |-> IF file.notification.t = "boolean"
                         THEN file.notification ELSE D.notification,
        timeout |-> IF file.timeout.t = "number" THEN file.timeout ELSE D.timeout,
        transient |-> IF file.transient.t = "boolean"
                      THEN file.transient ELSE D.transient,
        urgency |-> [k \in ResultKeys |-> Urgency(k)],
        messages |-> [k \in ResultKeys |-> Text("messages", k)],
        icons |-> [k \in ResultKeys |-> Text("icons", k)],
        category |-> [k \in ResultKeys |-> Text("category", k)]]

\* validateAndMergeConfig: the session urgency and the session message
\* fall back on the key "complete"
validateAndMergeConfig(file) ==
    LET D == DefaultFields("merge")
        Urgency(k) == LET val == getConfigProperty(file.urgency, k)
                      IN IF isValidUrgency(val) THEN val ELSE D.urgency[k]
        Text(g, k) == LET val == getConfigProperty(file[g], k)
                      IN IF isString(val) THEN val ELSE D[g][k]
        session == getConfigProperty(file.urgency, "session")
        complete == getConfigProperty(file.urgency, "complete")
        message == getConfigProperty(file.messages, "session")
        completion == getConfigProperty(file.messages, "complete")
    IN IF file.t # "object" \/ file.v = "null" THEN D
       ELSE [notification |-> IF file.notification.t = "boolean"
                              THEN file.notification ELSE D.notification,
             timeout |-> IF file.timeout.t = "number"
                         THEN file.timeout ELSE D.timeout,
             transient |-> IF file.transient.t = "boolean"
                           THEN file.transient ELSE D.transient,
             urgency |->
                [permission |-> Urgency("permission"),
                 session |-> IF isValidUrgency(session) \/ isValidUrgency(complete)
                             THEN IF isValidUrgency(session) THEN session
                                  ELSE complete
                             ELSE D.urgency.session,
                 third |-> Urgency("third")],
             messages |->
                [permission |-> Text("messages", "permission"),
                 session |-> IF isString(message) \/ isString(completion)
                             THEN IF isString(message) THEN message
                                  ELSE completion
                             ELSE D.messages.session,
                 third |-> Text("messages", "third")],
             icons |-> [k \in ResultKeys |-> Text("icons", k)],
             category |-> [k \in ResultKeys |-> Text("category", k)]]

\* loadConfig with an empty cache: a missing file gives the defaults, and
\* so does whatever throws inside the try block (readFileSync, JSON.parse,
\* and in the plugin the property read on null)
loadConfig(variant, file) ==
    IF file.state # "parsed" THEN DefaultFields(variant)
    ELSE IF variant = "merge" THEN validateAndMergeConfig(file)
    ELSE IF file = NoObject("parsed", JsonNull) THEN DefaultFields(variant)
    ELSE MergePlugin(file)

LoadConfigCall ==
    /\ gpc = "call"
    /\ gconfig' = loadConfig(gvariant, gfile)
    /\ gpc' = "returned"
    /\ UNCHANGED <<gvariant, gfile>>
    /\ UNCHANGED notConfig

NextConfig == LoadConfigCall

InitConfig ==
    /\ gpc = "call"
    /\ gvariant \in ConfigVariants
    /\ gfile \in ConfigFileStates
    /\ gconfig = "none"
    /\ ShellIdle
    /\ LoggerIdle
    /\ EngineIdle
    /\ ManifestIdle
    /\ VerifyIdle
    /\ DecomposeIdle
    /\ NotifierIdle
    /\ RoundTripIdle
    /\ WorkspaceIdle
    /\ PoolIdle
    /\ RankIdle
    /\ effects = {}

SpecConfig == InitConfig /\ [][NextConfig]_vars

\* every field of a configuration is there and valid
ValidConfig(c) ==
    /\ c.notification.t = "boolean"
    /\ c.timeout.t = "number"
    /\ c.transient.t = "boolean"
    /\ \A k \in ResultKeys :
          /\ c.urgency[k].v \in {"low", "normal", "critical"}
          /\ c.urgency[k].t = "string"
          /\ c.messages[k].t = "string"
          /\ c.icons[k].t = "string"
          /\ c.category[k].t = "string"

\* what the file says for a key of a group (nothing when the file or the
\* group is no object), and whether that is a valid value of the group
FileSays(file, g, k) ==
    IF file.state = "parsed" /\ file[g].t = "object" /\ file[g].v = "keys"
    THEN file[g].keys[k] ELSE Absent

ValidFor(g, val) ==
    IF g = "urgency" THEN val.t = "string" /\ val.v \in {"low", "normal", "critical"}
    ELSE val.t = "string"

TopLevelAsGivenOrDefault(file, c, D) ==
    /\ c.notification = IF file.notification.t = "boolean"
                        THEN file.notification ELSE D.notification
    /\ c.timeout = IF file.timeout.t = "number" THEN file.timeout ELSE D.timeout
    /\ c.transient = IF file.transient.t = "boolean"
                     THEN file.transient ELSE D.transient

\* the session urgency and message of the second module may be given
\* under the key "complete"
GivenAsComplete(variant, file, g, k) ==
    /\ variant = "merge"
    /\ k = "session"
    /\ g \in {"urgency", "messages"}
    /\ ValidFor(g, FileSays(file, g, "complete"))

\* C26: whatever the configuration file holds, loadConfig returns a
\* complete configuration of valid fields (every urgency one of low,
\* normal, critical); a field the file gives validly is taken from the
\* file, and a field that is absent or invalid takes its default, except
\* that the second module takes a session urgency or message that is
\* absent or invalid from the key "complete" when that one is valid.
LoadConfigCompleteAndValid ==
    gpc = "returned" =>
       /\ ValidConfig(gconfig)
       /\ TopLevelAsGivenOrDefault(gfile, gconfig, DefaultFields(gvariant))
       /\ \A g \in Groups : \A k \in ResultKeys :
             LET given == FileSays(gfile, g, k)
             IN gconfig[g][k] =
                   IF ValidFor(g, given) THEN given
                   ELSE IF GivenAsComplete(gvariant, gfile, g, k)
                        THEN FileSays(gfile, g, "complete")
                        ELSE DefaultFields(gvariant)[g][k]

\* a file with an unknown urgency, a message of the wrong type and a
\* session urgency given as "complete" has been loaded by the second module
InvalidFieldsLoaded ==
    /\ gpc = "returned"
    /\ gvariant = "merge"
    /\ FileSays(gfile, "urgency", "permission") = Str("urgent")
    /\ FileSays(gfile, "messages", "permission") = Num("7")
    /\ FileSays(gfile, "urgency", "session") = Absent
    /\ FileSays(gfile, "urgency", "complete") = Str("low")
    /\ gfile.notification = Str("no")
    /\ gconfig.urgency.permission = Str("critical")
    /\ gconfig.urgency.session = Str("low")

\* C26 as stated: every absent or invalid field takes its default.
LoadConfigDefaultsEveryInvalidField ==
    gpc = "returned" =>
       /\ ValidConfig(gconfig)
       /\ TopLevelAsGivenOrDefault(gfile, gconfig, DefaultFields(gvariant))
       /\ \A g \in Groups : \A k \in ResultKeys :
             LET given == FileSays(gfile, g, k)
             IN gconfig[g][k] =
                   IF ValidFor(g, given) THEN given
                   ELSE DefaultFields(gvariant)[g][k]

\* ========================================================================
\* ErrorLogger (src/error-logger.ts): log, pruneOldLogs, getLogs
\* ========================================================================
\* log calls followed when the retention is under test
MaxLogCalls == 102

\* log calls followed when a getLogs result is under test
MaxSnapshotCalls == 2

\* times the clock moves on, half a retention period each time
MaxTicks == 2

LOG_RETENTION_MS == 86400000

\* the clock moves on between two calls
Tick ==
    /\ lpc = "on"
    /\ lclock < MaxTicks * (LOG_RETENTION_MS \div 2)
    /\ lclock' = lclock + (LOG_RETENTION_MS \div 2)
    /\ UNCHANGED <<lpc, lcalls, lentries, lsnapshot, lattempt>>
    /\ UNCHANGED notLogger

Younger(entries, now) ==
    SelectSeq(entries, LAMBDA e : now - e.timestamp < LOG_RETENTION_MS)

pruneByAgeOnly(entries, now) == Younger(entries, now)

\* pruneOldLogs: the filter on age, then slice(-MAX_LOG_ENTRIES)
pruneOldLogs(entries, now) ==
    LET kept == Younger(entries, now)
    IN IF Len(kept) > MAX_LOG_ENTRIES
       THEN SubSeq(kept, Len(kept) - MAX_LOG_ENTRIES + 1, Len(kept))
       ELSE kept

\* log: the entry (an object of its own, here with the number of the call
\* as its identity) is pushed, then pruneOldLogs replaces this.logs. An
\* array that is this.logs itself sees the push and is then left behind.
LogCall(bound) ==
    /\ lpc = "on"
    /\ lcalls < bound
    /\ LET entry == [timestamp |-> lclock, id |-> lcalls + 1,
                     message |-> "logged"]
           pushed == Append(lentries, entry)
       IN /\ lentries' = pruneOldLogs(pushed, lclock)
          /\ lsnapshot' = IF lsnapshot.own THEN lsnapshot
                          ELSE [lsnapshot EXCEPT !.items = pushed, !.own = TRUE]
    /\ lcalls' = lcalls + 1
    /\ UNCHANGED <<lpc, lclock, lattempt>>
    /\ UNCHANGED notLogger

getLogsLive(entries) ==
    [taken |-> TRUE, frozen |-> FALSE, own |-> FALSE, items |-> entries]

\* getLogs: Object.freeze([...this.logs]), a frozen array of its own that
\* holds the logger's entry objects
getLogs(entries) ==
    [taken |-> TRUE, frozen |-> TRUE, own |-> TRUE, items |-> entries]

GetLogsCall ==
    /\ lpc = "on"
    /\ lsnapshot' = getLogs(lentries)
    /\ lattempt' = NoAttempt
    /\ UNCHANGED <<lpc, lclock, lcalls, lentries>>
    /\ UNCHANGED notLogger

\* what a caller pushes
Foreign == [timestamp |-> 0, id |-> 0, message |-> "Should fail"]

\* logs.push(entry) on the returned array: a frozen array throws
PushToSnapshot ==
    /\ lsnapshot.taken
    /\ IF lsnapshot.frozen
       THEN /\ lattempt' = [op |-> "push", threw |-> TRUE]
            /\ UNCHANGED <<lsnapshot, lentries>>
       ELSE /\ Len(lsnapshot.items) <= MaxSnapshotCalls
            /\ lattempt' = [op |-> "push", threw |-> FALSE]
            /\ lsnapshot' = [lsnapshot EXCEPT !.items = Append(@, Foreign)]
            /\ lentries' = IF lsnapshot.own THEN lentries
                           ELSE Append(lentries, Foreign)
    /\ UNCHANGED <<lpc, lclock, lcalls>>
    /\ UNCHANGED notLogger

\* logs[i] = entry on the returned array: a frozen array keeps its element;
\* the assignment throws in strict code and does nothing in sloppy code
AssignToSnapshot(i, strict) ==
    /\ lsnapshot.taken
    /\ i \in 1..Len(lsnapshot.items)
    /\ IF lsnapshot.frozen
       THEN /\ lattempt' = [op |-> "assign", threw |-> strict]
            /\ UNCHANGED <<lsnapshot, lentries>>
       ELSE /\ lattempt' = [op |-> "assign", threw |-> FALSE]
            /\ lsnapshot' = [lsnapshot EXCEPT !.items[i] = Foreign]
            /\ lentries' = IF lsnapshot.own THEN lentries
                           ELSE [lentries EXCEPT ![i] = Foreign]
    /\ UNCHANGED <<lpc, lclock, lcalls>>
    /\ UNCHANGED notLogger

\* logs[i].message = text: the entry is the logger's own object and is not
\* frozen, so the write is seen wherever the object is held
WriteEntryField(i) ==
    /\ lsnapshot.taken
    /\ i \in 1..Len(lsnapshot.items)
    /\ LET written == lsnapshot.items[i].id
           Write(l) == [j \in 1..Len(l) |->
                           IF l[j].id = written
                           THEN [l[j] EXCEPT !.message = "changed"]
                           ELSE l[j]]
       IN /\ lsnapshot' = [lsnapshot EXCEPT !.items = Write(@)]
          /\ lentries' = Write(lentries)
    /\ lattempt' = [op |-> "field", threw |-> FALSE]
    /\ UNCHANGED <<lpc, lclock, lcalls>>
    /\ UNCHANGED notLogger

NextLogger ==
    \/ Tick
    \/ LogCall(MaxLogCalls)

NextSnapshot ==
    \/ Tick
    \/ LogCall(MaxSnapshotCalls)
    \/ GetLogsCall
    \/ PushToSnapshot
    \/ \E i \in 1..MaxSnapshotCalls, strict \in BOOLEAN : AssignToSnapshot(i, strict)
    \/ \E i \in 1..MaxSnapshotCalls : WriteEntryField(i)

InitLogger ==
    /\ lpc = "on"
    /\ LoggerFresh
    /\ ShellIdle
    /\ ConfigIdle
    /\ EngineIdle
    /\ ManifestIdle
    /\ VerifyIdle
    /\ DecomposeIdle
    /\ NotifierIdle
    /\ RoundTripIdle
    /\ WorkspaceIdle
    /\ PoolIdle
    /\ RankIdle
    /\ effects = {}

SpecLogger == InitLogger /\ [][NextLogger]_vars

SpecSnapshot == InitLogger /\ [][NextSnapshot]_vars

\* C27: after any sequence of log calls the logger holds at most 100
\* entries.
LoggerHoldsAtMostMax == Len(lentries) <= MAX_LOG_ENTRIES

\* more than 100 log calls were made and the oldest entries are gone
OldestEntriesDropped ==
    /\ lcalls > MAX_LOG_ENTRIES
    /\ Len(lentries) = MAX_LOG_ENTRIES
    /\ lentries[1].id = lcalls - MAX_LOG_ENTRIES + 1
    /\ lentries[MAX_LOG_ENTRIES].id = lcalls

\* C28: the array getLogs returns is a frozen array of its own: a push
\* throws, a push or an element assignment leaves the array and the
\* logger's entries as they were, and a later log call leaves the array
\* as it was.
SnapshotArrayImmutable ==
    [][/\ (lattempt' # lattempt /\ lattempt'.op = "push") => lattempt'.threw
       /\ (lattempt' # lattempt /\ lattempt'.op \in {"push", "assign"}) =>
             lentries' = lentries /\ lsnapshot' = lsnapshot
       /\ (lsnapshot.taken /\ lcalls' # lcalls) => lsnapshot' = lsnapshot]_vars

\* a push on the returned array threw, and a later log call added an entry
\* the array does not hold
SnapshotLeftBehind ==
    /\ lsnapshot.taken
    /\ Len(lsnapshot.items) = 1
    /\ Len(lentries) = 2
    /\ lattempt = [op |-> "push", threw |-> TRUE]

\* C28 as stated: no attempt to mutate what getLogs returned changes the
\* logger's stored entries.
SnapshotWritesNeverReachLogger ==
    [][(lattempt' # lattempt /\ lattempt'.op # "none") =>
          lentries' = lentries]_vars

============================================================================
